---- MODULE Spec2Model ----
(***************************************************************************)
(* Model of the PVE App Store provisioning SDK (sdk/python/appstore).      *)
(*                                                                         *)
(* Strings are sequences of one-character strings, so that the string      *)
(* functions of the code (normpath, fnmatch, split, strip, startswith)     *)
(* are computed character by character as the code computes them.          *)
(***************************************************************************)
EXTENDS Naturals, Integers, Sequences, FiniteSets, TLC

VARIABLES
    manifest,        \* script instance -> the manifest document the engine supplied for it
    perms,           \* script instance -> its AppPermissions object (nine allowlists)
    implicit_paths,  \* AppPermissions._implicit_paths, a class attribute shared by all instances
    last,            \* the gate check in flight: who called, which check, the value, the outcome
    os,              \* BaseApp._os of the script instance, fixed at construction
    call,            \* the SDK helper call in flight: helper name and its package arguments
    events,          \* what the helper call in flight did, in order: gate checks, subprocesses, the raise
    raised,          \* the exception the helper call in flight ended with ("none" when it returned)
    invocation,      \* the runner process in flight: its command line and the script it loads
    exit_status,     \* the exit status the runner process ended with
    analyzed,        \* the source text handed to the analyze call in flight
    sheet,           \* the fact sheet the analyze call in flight returned
    machine,         \* platform.machine() of the host
    registry,        \* what the registry serves to the pull in flight: manifests and blobs
    files,           \* the file system: path -> <<>> (absent) or <<[data, mode]>>
    pull             \* the pull_binary call in flight

allowlists == <<manifest, perms, implicit_paths>>
gateVars == <<manifest, perms, implicit_paths, last>>
appVars == <<os, call, events, raised>>
ociVars == <<machine, registry, files, pull>>
toolVars == <<invocation, exit_status, analyzed, sheet, ociVars>>
vars == <<manifest, perms, implicit_paths, last, os, call, events, raised, invocation, exit_status,
          analyzed, sheet, machine, registry, files, pull>>

------------------------------------------------------------------------------
(* Bounds of the model *)

MaxPathPieces == 4      \* pieces ("/", ".", "..", "a") of an enumerated candidate path
MaxEntryPieces == 2     \* pieces of an enumerated declared path prefix
MaxGlobPieces == 2      \* pieces of an enumerated glob pattern
MaxNameLen == 2         \* characters of an enumerated name checked against the patterns
MaxAptPieces == 3       \* pieces of an enumerated APT repository line
MaxAptEntryPieces == 2  \* pieces of an enumerated apt_repos entry
MaxPackages == 3        \* packages passed to one helper call
MaxStatements == 3      \* top-level statements of an enumerated script
MaxArgs == 2            \* positional arguments of an enumerated call
MaxLayers == 4          \* layers of an enumerated image

------------------------------------------------------------------------------
(* str methods used by the gate *)

Range(s) == {s[k] : k \in 1..Len(s)}

\* str.startswith(prefix)
StartsWith(s, prefix) ==
    /\ Len(prefix) <= Len(s)
    /\ SubSeq(s, 1, Len(prefix)) = prefix

RECURSIVE Concat(_)
\* "".join(parts)
Concat(parts) ==
    IF parts = <<>> THEN <<>> ELSE Head(parts) \o Concat(Tail(parts))

RECURSIVE Join(_, _)
\* sep.join(parts)
Join(parts, sep) ==
    IF parts = <<>> THEN <<>>
    ELSE IF Len(parts) = 1 THEN Head(parts)
    ELSE Head(parts) \o sep \o Join(Tail(parts), sep)

RECURSIVE SplitOn(_, _, _)
\* str.split(sep) for a one-character separator; cur is the piece being read
SplitOn(s, sep, cur) ==
    IF s = <<>> THEN <<cur>>
    ELSE IF Head(s) = sep THEN <<cur>> \o SplitOn(Tail(s), sep, <<>>)
    ELSE SplitOn(Tail(s), sep, Append(cur, Head(s)))

Whitespace == {" ", "\t", "\n"}

RECURSIVE lstrip(_, _)
\* str.lstrip(chars)
lstrip(s, chars) ==
    IF s # <<>> /\ Head(s) \in chars THEN lstrip(Tail(s), chars) ELSE s

RECURSIVE rstrip(_, _)
\* str.rstrip(chars)
rstrip(s, chars) ==
    IF s # <<>> /\ s[Len(s)] \in chars THEN rstrip(SubSeq(s, 1, Len(s) - 1), chars) ELSE s

\* str.strip()
strip(s) == rstrip(lstrip(s, Whitespace), Whitespace)

RECURSIVE split_ws(_, _)
\* str.split(): the non-empty runs of non-whitespace characters; cur is the token being read
split_ws(s, cur) ==
    IF s = <<>> THEN (IF cur = <<>> THEN <<>> ELSE <<cur>>)
    ELSE IF Head(s) \in Whitespace
         THEN (IF cur = <<>> THEN <<>> ELSE <<cur>>) \o split_ws(Tail(s), <<>>)
    ELSE split_ws(Tail(s), Append(cur, Head(s)))

------------------------------------------------------------------------------
(* fnmatch.fnmatch (posix: no case folding), called by the glob checks *)

\* translate(): the index j of the ']' that closes a class whose body starts at
\* rest[1], or Len(rest) + 1 when the '[' is not closed and stands for itself
class_end(rest) ==
    LET n == Len(rest)
        j1 == IF 1 <= n /\ rest[1] = "!" THEN 2 ELSE 1
        j2 == IF j1 <= n /\ rest[j1] = "]" THEN j1 + 1 ELSE j1
        closing == {j \in j2..n : rest[j] = "]"}
    IN IF closing = {} THEN n + 1
       ELSE CHOOSE j \in closing : \A k \in closing : j <= k

\* translate(): does the class with body stuff (no '-' range in it) match c
in_class(c, stuff) ==
    IF stuff # <<>> /\ stuff[1] = "!"
    THEN c \notin Range(SubSeq(stuff, 2, Len(stuff)))
    ELSE c \in Range(stuff)

RECURSIVE fnmatch(_, _)
\* does the whole of name match the shell pattern pat
fnmatch(name, pat) ==
    IF pat = <<>> THEN name = <<>>
    ELSE LET c == Head(pat)
             rest == Tail(pat)
         IN IF c = "*"
            THEN fnmatch(name, rest) \/ (name # <<>> /\ fnmatch(Tail(name), pat))
            ELSE IF c = "?"
            THEN name # <<>> /\ fnmatch(Tail(name), rest)
            ELSE IF c = "["
            THEN LET j == class_end(rest)
                 IN IF j > Len(rest)
                    THEN name # <<>> /\ Head(name) = "[" /\ fnmatch(Tail(name), rest)
                    ELSE /\ name # <<>>
                         /\ in_class(Head(name), SubSeq(rest, 1, j - 1))
                         /\ fnmatch(Tail(name), SubSeq(rest, j + 1, Len(rest)))
            ELSE name # <<>> /\ Head(name) = c /\ fnmatch(Tail(name), rest)

------------------------------------------------------------------------------
(* os.path.normpath (posixpath), called by check_path *)

\* the number of leading slashes normpath keeps: 0, 1, or 2 for exactly two
initial_slashes(path) ==
    IF ~StartsWith(path, <<"/">>) THEN 0
    ELSE IF StartsWith(path, <<"/", "/">>) /\ ~StartsWith(path, <<"/", "/", "/">>) THEN 2
    ELSE 1

RECURSIVE new_comps(_, _, _)
\* the loop over the components: drop '' and '.', resolve '..' against the stack acc
new_comps(comps, acc, slashes) ==
    IF comps = <<>> THEN acc
    ELSE LET comp == Head(comps)
             rest == Tail(comps)
         IN IF comp = <<>> \/ comp = <<".">> THEN new_comps(rest, acc, slashes)
            ELSE IF \/ comp # <<".", ".">>
                    \/ (slashes = 0 /\ acc = <<>>)
                    \/ (acc # <<>> /\ acc[Len(acc)] = <<".", ".">>)
                 THEN new_comps(rest, Append(acc, comp), slashes)
            ELSE IF acc # <<>> THEN new_comps(rest, SubSeq(acc, 1, Len(acc) - 1), slashes)
            ELSE new_comps(rest, acc, slashes)

normpath(path) ==
    IF path = <<>> THEN <<".">>
    ELSE LET slashes == initial_slashes(path)
             joined == Join(new_comps(SplitOn(path, "/", <<>>), <<>>, slashes), <<"/">>)
             res == [k \in 1..slashes |-> "/"] \o joined
         IN IF res = <<>> THEN <<".">> ELSE res

------------------------------------------------------------------------------
(* AppPermissions *)

Classes == {"packages", "pip", "urls", "paths", "services", "users",
            "commands", "installer_scripts", "apt_repos"}

\* __init__ as it would be with an allow-all default for an undeclared class
AppPermissions_permissive(decl) ==
    [c \in Classes |-> IF c \in DOMAIN decl /\ decl[c] # <<>> THEN decl[c] ELSE << <<"*">> >>]

\* AppPermissions.__init__: an absent (None) or empty argument becomes []
AppPermissions(decl) ==
    [c \in Classes |-> IF c \in DOMAIN decl THEN decl[c] ELSE <<>>]

\* _implicit_paths = ["/tmp", "/opt/venv"]
ImplicitPaths == << <<"/", "t", "m", "p">>, <<"/", "o", "p", "t", "/", "v", "e", "n", "v">> >>

\* the loop body as it would be without the separator after the allowed prefix
path_allowed_by_prefix(normalized, allowed) ==
    LET allowed_norm == normpath(allowed)
    IN IF allowed_norm = <<"/">>
       THEN StartsWith(normalized, <<"/">>)
       ELSE StartsWith(normalized, allowed_norm)

\* the body of the loop of check_path for one allowed entry
path_allowed_by(normalized, allowed) ==
    LET allowed_norm == normpath(allowed)
    IN IF allowed_norm = <<"/">>
       THEN StartsWith(normalized, <<"/">>)
       ELSE normalized = allowed_norm \/ StartsWith(normalized, allowed_norm \o <<"/">>)

\* check_path: TRUE when it returns, FALSE when it raises PermissionDeniedError
check_path(p, implicit, path) ==
    LET normalized == normpath(path)
        allowlist == implicit \o p.paths
    IN \E k \in 1..Len(allowlist) : path_allowed_by(normalized, allowlist[k])

\* check_package as it would be with a prefix test in place of the glob match
check_package_prefix(p, package) ==
    \E k \in 1..Len(p.packages) : StartsWith(package, p.packages[k])

\* check_package: TRUE when it returns, FALSE when it raises PermissionDeniedError
check_package(p, package) ==
    \E k \in 1..Len(p.packages) : fnmatch(package, p.packages[k])

\* the character class as it would be without '<'
PipSpecifierChars_short == {"[", ">", "=", "!", "~", ";", "@"}

\* the characters of the regular expression [\[<>=!~;@] of _pip_base_name
PipSpecifierChars == {"[", "<", ">", "=", "!", "~", ";", "@"}

RECURSIVE before_specifier(_)
\* re.split(r"[\[<>=!~;@]", pkg)[0]
before_specifier(pkg) ==
    IF pkg = <<>> \/ Head(pkg) \in PipSpecifierChars THEN <<>>
    ELSE <<Head(pkg)>> \o before_specifier(Tail(pkg))

_pip_base_name(pkg) == strip(before_specifier(pkg))

check_pip_package(p, package) ==
    LET base == _pip_base_name(package)
    IN \E k \in 1..Len(p.pip) : fnmatch(base, _pip_base_name(p.pip[k]))

check_url(p, url) ==
    \E k \in 1..Len(p.urls) : fnmatch(url, p.urls[k])

\* check_service as it would be with glob matching
check_service_glob(p, service) ==
    \E k \in 1..Len(p.services) : fnmatch(service, p.services[k])

check_service(p, service) == service \in Range(p.services)

check_user(p, user) == user \in Range(p.users)

check_command(p, cmd) ==
    \E k \in 1..Len(p.commands) : fnmatch(cmd, p.commands[k])

\* check_installer_script as it would be with glob matching on the legacy list too
check_installer_script_glob(p, url) ==
    \/ \E k \in 1..Len(p.urls) : fnmatch(url, p.urls[k])
    \/ \E k \in 1..Len(p.installer_scripts) : fnmatch(url, p.installer_scripts[k])

check_installer_script(p, url) ==
    \/ \E k \in 1..Len(p.urls) : fnmatch(url, p.urls[k])
    \/ url \in Range(p.installer_scripts)

Http == <<"h", "t", "t", "p", ":", "/", "/">>
Https == <<"h", "t", "t", "p", "s", ":", "/", "/">>

RECURSIVE first_url_token(_)
\* the loop of _extract_repo_url over the tokens of the line
first_url_token(tokens) ==
    IF tokens = <<>> THEN <<>>
    ELSE IF StartsWith(Head(tokens), Http) \/ StartsWith(Head(tokens), Https)
         THEN rstrip(Head(tokens), {"/"})
    ELSE first_url_token(Tail(tokens))

_extract_repo_url(line) == first_url_token(split_ws(line, <<>>))

\* the loop body as it would be without the separator after the allowed URL
apt_repo_allowed_by_prefix(repo_line, repo_url, allowed) ==
    LET allowed_clean == rstrip(allowed, {"/"})
    IN \/ /\ repo_url # <<>>
          /\ \/ repo_url = allowed_clean
             \/ StartsWith(repo_url, allowed_clean)
             \/ fnmatch(repo_url, allowed_clean)
       \/ Join(split_ws(repo_line, <<>>), <<" ">>) = Join(split_ws(allowed, <<>>), <<" ">>)

\* the body of the loop of check_apt_repo for one allowed entry
apt_repo_allowed_by(repo_line, repo_url, allowed) ==
    LET allowed_clean == rstrip(allowed, {"/"})
    IN \/ /\ repo_url # <<>>
          /\ \/ repo_url = allowed_clean
             \/ StartsWith(repo_url, allowed_clean \o <<"/">>)
             \/ fnmatch(repo_url, allowed_clean)
       \/ Join(split_ws(repo_line, <<>>), <<" ">>) = Join(split_ws(allowed, <<>>), <<" ">>)

check_apt_repo(p, repo_line) ==
    LET repo_url == _extract_repo_url(repo_line)
    IN \E k \in 1..Len(p.apt_repos) : apt_repo_allowed_by(repo_line, repo_url, p.apt_repos[k])

------------------------------------------------------------------------------
(* BaseApp package helpers.  A helper is computed as the run it makes: the  *)
(* events it performs in order and the exception it ends with.              *)

LogEvent(msg) == [kind |-> "log", what |-> msg, args |-> <<>>]
CheckEvent(check, value) == [kind |-> "check", what |-> check, args |-> <<value>>]
RunEvent(cmd, args) == [kind |-> "run", what |-> cmd, args |-> args]

Done(evs) == [events |-> evs, raised |-> "none"]

\* statement sequencing: next runs only when first did not raise
Then(first, next) ==
    IF first.raised # "none" THEN first
    ELSE [events |-> first.events \o next.events, raised |-> next.raised]

\* self.log.info(msg)
log_info(msg) == Done(<<LogEvent(msg)>>)

\* BaseApp._run: start the subprocess, wait for it, raise RuntimeError when it
\* exits non-zero and check is set (a warning is logged when check is not set)
_run(cmd, args, returncode, check) ==
    IF returncode = 0 THEN Done(<<RunEvent(cmd, args)>>)
    ELSE IF check THEN [events |-> <<RunEvent(cmd, args)>>, raised |-> "RuntimeError"]
    ELSE Done(<<RunEvent(cmd, args), LogEvent("Command exited (non-fatal)")>>)

\* self.permissions.<check>(pkg) for the checks the modelled helpers call
permission_check(p, check, pkg) ==
    IF check = "check_pip_package" THEN check_pip_package(p, pkg)
    ELSE IF check = "check_installer_script" THEN check_installer_script(p, pkg)
    ELSE check_package(p, pkg)

\* for pkg in packages: self.permissions.<check>(pkg)
check_each(p, packages, check) ==
    LET denied == {k \in 1..Len(packages) : ~permission_check(p, check, packages[k])}
        stop == IF denied = {} THEN Len(packages)
                ELSE CHOOSE k \in denied : \A j \in denied : k <= j
    IN [events |-> [k \in 1..stop |-> CheckEvent(check, packages[k])],
        raised |-> IF denied = {} THEN "none" ELSE "PermissionDeniedError"]

RECURSIVE check_and_install_each(_, _, _)
\* a loop that checks and installs one package at a time
check_and_install_each(p, packages, rcs) ==
    IF packages = <<>> THEN Done(<<>>)
    ELSE Then(check_each(p, <<Head(packages)>>, "check_package"),
         Then(_run("apt-get install -y -qq", <<Head(packages)>>, rcs[2], TRUE),
              check_and_install_each(p, Tail(packages), rcs)))

\* apt_install as it would be with the check inside the install loop
apt_install_interleaved(p, packages, rcs) ==
    Then(log_info("Installing apt packages"),
    Then(_run("apt-get update -qq", <<>>, rcs[1], TRUE),
         check_and_install_each(p, packages, rcs)))

\* BaseApp.apt_install(*packages); rcs are the exit codes of its subprocesses
apt_install(p, packages, rcs) ==
    Then(check_each(p, packages, "check_package"),
    Then(log_info("Installing apt packages"),
    Then(_run("apt-get update -qq", <<>>, rcs[1], TRUE),
         _run("apt-get install -y -qq", packages, rcs[2], TRUE))))

\* platform_debian.pkg_install
debian_pkg_install(packages, rcs) ==
    Then(log_info("Installing packages (apt)"),
    Then(_run("apt-get update -qq", <<>>, rcs[1], FALSE),
         IF rcs[1] # 0 THEN [events |-> <<>>, raised |-> "RuntimeError"]
         ELSE _run("apt-get install -y -qq", packages, rcs[2], TRUE)))

\* platform_alpine.pkg_install
alpine_pkg_install(packages, rcs) ==
    Then(log_info("Installing packages (apk)"),
         _run("apk add --no-cache", packages, rcs[1], TRUE))

\* BaseApp.pkg_install(*packages); BaseApp.__init__ picked the platform from _os
pkg_install(p, platform, packages, rcs) ==
    Then(check_each(p, packages, "check_package"),
         IF platform = "alpine" THEN alpine_pkg_install(packages, rcs)
         ELSE debian_pkg_install(packages, rcs))

\* _default_venv = "/opt/venv"
_default_venv == <<"/", "o", "p", "t", "/", "v", "e", "n", "v">>

\* BaseApp.pip_install(*packages, venv=None); has_pip is os.path.isfile(f"{venv_path}/bin/pip")
pip_install(p, packages, venv, has_pip, rcs) ==
    LET venv_path == IF venv = <<>> THEN _default_venv ELSE venv
    IN Then(check_each(p, packages, "check_pip_package"),
       Then(IF has_pip THEN Done(<<>>)
            ELSE Then(log_info("Creating venv"),
                      _run("python3 -m venv", <<venv_path>>, rcs[1], TRUE)),
       Then(log_info("Installing pip packages"),
            _run("bin/pip install --progress-bar off", <<venv_path>> \o packages,
                 rcs[2], TRUE))))

FileEvent(op, path) == [kind |-> "file", what |-> op, args |-> <<path>>]

\* the statement as it would be with the cleanup after the try block instead of
\* in a finally clause: it is skipped when the body raises
Finally_after(body, cleanup) == Then(body, cleanup)

\* try: body finally: cleanup -- cleanup always runs, the exception of body goes on
Finally(body, cleanup) ==
    [events |-> body.events \o cleanup.events,
     raised |-> IF cleanup.raised # "none" THEN cleanup.raised ELSE body.raised]

TmpScript == <<"/", "t", "m", "p", "/", "x", ".", "s", "h">>

\* run_installer_script as it would be with the check inside a try that swallows
run_installer_script_swallow(p, url, rcs) ==
    LET checked == check_each(p, <<url>>, "check_installer_script")
    IN IF checked.raised # "none" THEN Done(checked.events)
       ELSE Then(checked,
            Then(log_info("Running installer script"),
            Then(Done(<<FileEvent("NamedTemporaryFile", TmpScript)>>),
                 Finally(Then(_run("curl -fsSL -o", <<TmpScript, url>>, rcs[1], TRUE),
                         Then(Done(<<FileEvent("chmod", TmpScript)>>),
                              _run("bash", <<TmpScript>>, rcs[2], TRUE))),
                         Done(<<FileEvent("unlink", TmpScript)>>)))))

\* BaseApp.run_installer_script(url)
run_installer_script(p, url, rcs) ==
    Then(check_each(p, <<url>>, "check_installer_script"),
    Then(log_info("Running installer script"),
    Then(Done(<<FileEvent("NamedTemporaryFile", TmpScript)>>),
         Finally(Then(_run("curl -fsSL -o", <<TmpScript, url>>, rcs[1], TRUE),
                 Then(Done(<<FileEvent("chmod", TmpScript)>>),
                      _run("bash", <<TmpScript>>, rcs[2], TRUE))),
                 Done(<<FileEvent("unlink", TmpScript)>>)))))

------------------------------------------------------------------------------
(* runner.main: the process the engine starts for one lifecycle action *)

valid_actions == {"install", "configure", "healthcheck", "uninstall"}

\* issubclass(exc, cls) for the exception classes that occur
IsSubclass(exc, cls) ==
    \/ exc = cls
    \/ cls = "Exception" /\ exc \in {"PermissionDeniedError", "RuntimeError", "ValueError"}
    \/ cls = "BaseException"

\* the first except clause that matches exc (0 when none does)
matching_clause(exc, clauses) ==
    LET m == {k \in 1..Len(clauses) : IsSubclass(exc, clauses[k])}
    IN IF m = {} THEN 0 ELSE CHOOSE k \in m : \A j \in m : k <= j

\* the except clauses of main's last try statement, in source order
except_clauses == <<"PermissionDeniedError", "Exception">>

\* the app's lifecycle method: the script calls one SDK helper, then raises or returns
lifecycle_method(p, platform, body) ==
    LET helped ==
          IF body.helper = "apt_install" THEN apt_install(p, body.args, body.rcs)
          ELSE IF body.helper = "pkg_install" THEN pkg_install(p, platform, body.args, body.rcs)
          ELSE IF body.helper = "pip_install" THEN pip_install(p, body.args, <<>>, FALSE, body.rcs)
          ELSE IF body.helper = "run_installer_script"
               THEN run_installer_script(p, body.args[1], body.rcs)
          ELSE Done(<<>>)
    IN Then(helped, [events |-> <<>>, raised |-> body.raises])

log_error(msg) == Done(<<LogEvent(msg)>>)

\* a step of main that runs code outside it: the loading of the two JSON files,
\* the execution of the app module, the construction of the app, the method
CallEvent(what) == [kind |-> "call", what |-> what, args |-> <<>>]

\* the process ends: what it did, the exception that ended main, its exit status
exited(evs, exc, status) == [events |-> evs, raised |-> exc, status |-> <<status>>]

\* the rest of main's try block once the lifecycle method has run
after_method(inv, ran) ==
    IF ran.raised # "none" THEN ran
    ELSE IF inv.action = "healthcheck" /\ inv.body.returns = "False"
         THEN [events |-> ran.events \o <<LogEvent("Healthcheck returned False")>>,
               raised |-> "SystemExit"]
    ELSE Then(ran, log_info("completed successfully"))

\* the body of main's last try statement
try_body(inv, p, platform) ==
    IF ~inv.has_method
    THEN [events |-> <<CallEvent("app_class"), LogEvent("does not implement")>>,
          raised |-> "SystemExit"]
    ELSE after_method(inv, Then(Done(<<CallEvent("app_class"), LogEvent("Starting"),
                                       CallEvent(inv.action)>>),
                                lifecycle_method(p, platform, inv.body)))

\* the except clauses of main's last try statement, applied to what its body did
handle(tried, clause) ==
    IF tried.raised = "none" THEN exited(tried.events, "none", 0)
    ELSE IF clause = 0 THEN exited(tried.events, tried.raised, 1)
    ELSE IF except_clauses[clause] = "PermissionDeniedError"
         THEN exited(tried.events \o <<LogEvent("Permission denied")>>, tried.raised, 2)
    ELSE exited(tried.events \o <<LogEvent("failed")>>, tried.raised, 1)

\* try: ... except PermissionDeniedError: ... except Exception: ...
try_except(tried) == handle(tried, matching_clause(tried.raised, except_clauses))

\* the steps of main that load the files and the module, as far as they get
loaded(inv) ==
    IF ~inv.files_ok THEN <<CallEvent("from_file")>>
    ELSE <<CallEvent("from_file"), CallEvent("exec_module")>>

\* what the try statement of a registered app class did, after the loading
started(loads, ended) == exited(loads \o ended.events, ended.raised, ended.status[1])

\* main as it would be with the action looked at only when the method is fetched
main_late_validation(inv, p, platform) ==
    IF inv.argc < 5 THEN exited(<<LogEvent("Usage")>>, "SystemExit", 1)
    ELSE IF ~inv.files_ok
         THEN exited(loaded(inv) \o <<LogEvent("Failed to load inputs/permissions")>>,
                     "SystemExit", 1)
    ELSE IF ~inv.module_ok
         THEN exited(loaded(inv) \o <<LogEvent("Failed to load app module")>>,
                     "SystemExit", 1)
    ELSE IF ~inv.registered
         THEN exited(loaded(inv) \o <<LogEvent("did not call appstore.run")>>,
                     "SystemExit", 1)
    ELSE IF inv.action \notin valid_actions
         THEN exited(loaded(inv) \o <<CallEvent("app_class"), LogEvent("Invalid action")>>,
                     "SystemExit", 1)
    ELSE started(loaded(inv), try_except(try_body(inv, p, platform)))

\* runner.main(); sys.exit raises SystemExit, which no clause of main catches
main(inv, p, platform) ==
    IF inv.argc < 5 THEN exited(<<LogEvent("Usage")>>, "SystemExit", 1)
    ELSE IF inv.action \notin valid_actions
         THEN exited(<<LogEvent("Invalid action")>>, "SystemExit", 1)
    ELSE IF ~inv.files_ok
         THEN exited(loaded(inv) \o <<LogEvent("Failed to load inputs/permissions")>>,
                     "SystemExit", 1)
    ELSE IF ~inv.module_ok
         THEN exited(loaded(inv) \o <<LogEvent("Failed to load app module")>>,
                     "SystemExit", 1)
    ELSE IF ~inv.registered
         THEN exited(loaded(inv) \o <<LogEvent("did not call appstore.run")>>,
                     "SystemExit", 1)
    ELSE started(loaded(inv), try_except(try_body(inv, p, platform)))

------------------------------------------------------------------------------
(* analyze_script: the syntax trees of the ast module.  A tree is a record  *)
(* with the fields of its ast class; python values carry their type.        *)

StrValue(s) == [type |-> "str", s |-> s]
IntValue(n) == [type |-> "int", n |-> n]
BoolValue(b) == [type |-> "bool", b |-> b]
NoneValue == [type |-> "NoneType"]

Name(id) == [node |-> "Name", id |-> id]
Constant(value) == [node |-> "Constant", value |-> value]
Attribute(value, attr) == [node |-> "Attribute", value |-> value, attr |-> attr]
Starred(value) == [node |-> "Starred", value |-> value]
List(elts) == [node |-> "List", elts |-> elts]
Tuple(elts) == [node |-> "Tuple", elts |-> elts]
\* a key of None stands for a ** spread inside the braces
NoneNode == [node |-> "None"]
Dict(keys, values) == [node |-> "Dict", keys |-> keys, values |-> values]
UnaryOp(op, operand) == [node |-> "UnaryOp", op |-> op, operand |-> operand]
BinOp(left, right) == [node |-> "BinOp", left |-> left, right |-> right]
Lambda(body) == [node |-> "Lambda", body |-> body]
\* arg is <<name>>, or <<>> (None) for a ** spread
keyword(arg, value) == [node |-> "keyword", arg |-> arg, value |-> value]
Call(lineno, func, args, keywords) ==
    [node |-> "Call", lineno |-> lineno, func |-> func, args |-> args, keywords |-> keywords]
Expr(value) == [node |-> "Expr", value |-> value]
FunctionDef(name, body) == [node |-> "FunctionDef", name |-> name, body |-> body]
AsyncFunctionDef(name, body) == [node |-> "AsyncFunctionDef", name |-> name, body |-> body]
ClassDef(name, bases, body) == [node |-> "ClassDef", name |-> name, bases |-> bases, body |-> body]
ImportFrom(module, names) == [node |-> "ImportFrom", module |-> module, names |-> names]
Module(body) == [node |-> "Module", body |-> body]

RECURSIVE without_none(_)
\* the entries of a field that are nodes
without_none(nodes) ==
    IF nodes = <<>> THEN <<>>
    ELSE IF Head(nodes) = NoneNode THEN without_none(Tail(nodes))
    ELSE <<Head(nodes)>> \o without_none(Tail(nodes))

\* ast.iter_child_nodes: the child nodes in the order of the class's _fields
iter_child_nodes(node) ==
    CASE node.node \in {"Module", "FunctionDef", "AsyncFunctionDef"} -> node.body
      [] node.node = "ClassDef" -> node.bases \o node.body
      [] node.node \in {"Expr", "Attribute", "Starred", "keyword"} -> <<node.value>>
      [] node.node = "Call" -> <<node.func>> \o node.args \o node.keywords
      [] node.node \in {"List", "Tuple"} -> node.elts
      [] node.node = "Dict" ->
            without_none(node.keys) \o node.values
      [] node.node = "UnaryOp" -> <<node.operand>>
      [] node.node = "BinOp" -> <<node.left, node.right>>
      [] node.node = "Lambda" -> <<node.body>>
      [] OTHER -> <<>>

(* _resolve_value *)

\* the marker is an ordinary str
Dynamic == StrValue("<dynamic>")

\* result[key] = value on a dict kept as its items in insertion order
dict_set(items, key, value) ==
    IF \E k \in 1..Len(items) : items[k].key = key
    THEN [k \in 1..Len(items) |->
            IF items[k].key = key THEN [key |-> key, value |-> value] ELSE items[k]]
    ELSE Append(items, [key |-> key, value |-> value])

RECURSIVE _resolve_value(_)
RECURSIVE resolve_items(_, _, _)

\* the loop over zip(node.keys, node.values)
resolve_items(keys, values, result) ==
    IF keys = <<>> \/ values = <<>> THEN result
    ELSE LET key == _resolve_value(Head(keys))
         IN resolve_items(Tail(keys), Tail(values),
                IF key.type = "str"
                THEN dict_set(result, key.s, _resolve_value(Head(values)))
                ELSE result)

_resolve_value(node) ==
    IF node.node = "Constant" THEN node.value
    ELSE IF node.node \in {"List", "Tuple"}
         THEN [type |-> "list",
               items |-> [k \in 1..Len(node.elts) |-> _resolve_value(node.elts[k])]]
    ELSE IF node.node = "Dict"
         THEN [type |-> "dict", items |-> resolve_items(node.keys, node.values, <<>>)]
    ELSE IF node.node = "UnaryOp" /\ node.op = "USub"
         THEN LET val == _resolve_value(node.operand)
              IN IF val.type = "int" THEN IntValue(0 - val.n)
                 ELSE IF val.type = "bool" THEN IntValue(IF val.b THEN 0 - 1 ELSE 0)
                 ELSE Dynamic
    ELSE Dynamic

(* ScriptAnalyzer *)

\* ScriptAnalyzer.__init__
ScriptAnalyzer ==
    [imports |-> <<>>, class_name |-> "", has_install_method |-> FALSE,
     has_run_call |-> FALSE, input_keys |-> <<>>, method_calls |-> <<>>,
     unsafe_patterns |-> <<>>, defined_methods |-> <<>>, _in_class |-> FALSE]

\* the name a base class expression is known by
base_name(base) ==
    IF base.node = "Name" THEN base.id
    ELSE IF base.node = "Attribute" THEN base.attr
    ELSE ""

RECURSIVE function_defs(_)
\* the items of a class body that are instances of ast.FunctionDef
function_defs(body) ==
    IF body = <<>> THEN <<>>
    ELSE IF Head(body).node = "FunctionDef" THEN <<Head(body)>> \o function_defs(Tail(body))
    ELSE function_defs(Tail(body))

\* the loop over node.body in visit_ClassDef
note_methods(self, body) ==
    LET defs == function_defs(body)
    IN [self EXCEPT
          !.has_install_method = @ \/ \E k \in 1..Len(defs) : defs[k].name = "install",
          !.defined_methods = @ \o [k \in 1..Len(defs) |-> defs[k].name]]

\* the list of args a self call is recorded with
call_args(args) ==
    [k \in 1..Len(args) |->
        IF args[k].node = "Starred" THEN Dynamic ELSE _resolve_value(args[k])]

RECURSIVE call_kwargs(_, _)
\* the dict of kwargs a self call is recorded with
call_kwargs(keywords, kwargs) ==
    IF keywords = <<>> THEN kwargs
    ELSE call_kwargs(Tail(keywords),
            IF Head(keywords).arg # <<>>
            THEN dict_set(kwargs, Head(keywords).arg[1], _resolve_value(Head(keywords).value))
            ELSE kwargs)

IsName(node, id) == node.node = "Name" /\ node.id = id

\* visit_Call: run(ClassName)
note_run_call(self, node) ==
    IF /\ node.func.node = "Name"
       /\ node.func.id = "run"
       /\ node.args # <<>>
       /\ IsName(node.args[1], self.class_name)
    THEN [self EXCEPT !.has_run_call = TRUE]
    ELSE self

\* visit_Call: self.inputs.<type>("key", ...)
note_input_key(self, node) ==
    IF /\ node.func.node = "Attribute"
       /\ node.func.value.node = "Attribute"
       /\ IsName(node.func.value.value, "self")
       /\ node.func.value.attr = "inputs"
       /\ node.args # <<>>
    THEN LET key == _resolve_value(node.args[1])
         IN IF key.type = "str" /\ key.s # "<dynamic>"
            THEN [self EXCEPT !.input_keys =
                    Append(@, [key |-> key.s, line |-> node.lineno, type |-> node.func.attr])]
            ELSE self
    ELSE self

\* visit_Call: self.<method>(...)
note_method_call(self, node) ==
    IF node.func.node = "Attribute" /\ IsName(node.func.value, "self")
    THEN [self EXCEPT !.method_calls =
            Append(@, [method |-> node.func.attr, line |-> node.lineno,
                       args |-> call_args(node.args),
                       kwargs |-> call_kwargs(node.keywords, <<>>)])]
    ELSE self

subprocess_calls == {"call", "run", "Popen", "check_call", "check_output"}

\* visit_Call: os.system(...) and subprocess.<call>(...)
note_unsafe(self, node) ==
    IF node.func.node = "Attribute" /\ IsName(node.func.value, "os")
       /\ node.func.attr = "system"
    THEN [self EXCEPT !.unsafe_patterns =
            Append(@, [line |-> node.lineno, pattern |-> "os.system"])]
    ELSE IF node.func.node = "Attribute" /\ IsName(node.func.value, "subprocess")
            /\ node.func.attr \in subprocess_calls
    THEN [self EXCEPT !.unsafe_patterns =
            Append(@, [line |-> node.lineno, pattern |-> "subprocess." \o node.func.attr])]
    ELSE self

RECURSIVE visit(_, _)
RECURSIVE visit_each(_, _)

\* the loop of generic_visit over the child nodes; the visit of one child has
\* ended (its result is compared) before the visit of the next begins
visit_each(self, nodes) ==
    IF nodes = <<>> THEN self
    ELSE LET visited == visit(self, Head(nodes))
         IN IF visited = self THEN visit_each(self, Tail(nodes))
            ELSE visit_each(visited, Tail(nodes))

\* NodeVisitor.generic_visit
generic_visit(self, node) == visit_each(self, iter_child_nodes(node))

visit_ImportFrom(self, node) ==
    generic_visit(
        IF node.module = "appstore" THEN [self EXCEPT !.imports = @ \o node.names] ELSE self,
        node)

visit_ClassDef(self, node) ==
    IF \E k \in 1..Len(node.bases) : base_name(node.bases[k]) = "BaseApp"
    THEN LET entered == note_methods([self EXCEPT !.class_name = node.name,
                                             !._in_class = TRUE], node.body)
         IN [generic_visit(entered, node) EXCEPT !._in_class = FALSE]
    ELSE generic_visit(self, node)

\* visit_Call as it would be without the walk into the call's own children
visit_Call_shallow(self, node) ==
    note_unsafe(note_method_call(note_input_key(note_run_call(self, node), node), node), node)

visit_Call(self, node) ==
    generic_visit(
        note_unsafe(note_method_call(note_input_key(note_run_call(self, node), node), node),
                    node),
        node)

\* NodeVisitor.visit: the visit_<class> method when there is one
visit(self, node) ==
    IF node.node = "ImportFrom" THEN visit_ImportFrom(self, node)
    ELSE IF node.node = "ClassDef" THEN visit_ClassDef(self, node)
    ELSE IF node.node = "Call" THEN visit_Call(self, node)
    ELSE generic_visit(self, node)

(* analyze *)

\* a source text is known by what ast.parse makes of it: the tree of a script,
\* or the exception it raises
Script(tree) == [kind |-> "script", tree |-> tree]
Unparsable(exc, msg, lineno) == [kind |-> exc, msg |-> msg, lineno |-> lineno]

\* ast.parse(source): lineno is <<n>>, or <<>> when the SyntaxError carries None
ast_parse(source) ==
    IF source.kind = "script" THEN [raised |-> "none", tree |-> source.tree]
    ELSE [raised |-> source.kind, msg |-> source.msg, lineno |-> source.lineno]

\* the fact sheet analyze starts from
empty_result ==
    [imports |-> <<>>, class_name |-> "", has_install_method |-> FALSE,
     has_run_call |-> FALSE, input_keys |-> <<>>, method_calls |-> <<>>,
     unsafe_patterns |-> <<>>, defined_methods |-> <<>>, error |-> <<>>]

\* analyze(source): the fact sheet returned, or the exception that leaves it;
\* error is <<>> for None and <<msg, lineno>> for the formatted message
analyze(source) ==
    LET parsed == ast_parse(source)
    IN IF parsed.raised = "SyntaxError"
       THEN [raised |-> "none",
             result |-> [empty_result EXCEPT !.error = <<parsed.msg, parsed.lineno>>]]
       ELSE IF parsed.raised # "none"
       THEN [raised |-> parsed.raised, result |-> empty_result]
       ELSE LET analyzer == visit(ScriptAnalyzer, parsed.tree)
            IN [raised |-> "none",
                result |-> [imports |-> analyzer.imports,
                            class_name |-> analyzer.class_name,
                            has_install_method |-> analyzer.has_install_method,
                            has_run_call |-> analyzer.has_run_call,
                            input_keys |-> analyzer.input_keys,
                            method_calls |-> analyzer.method_calls,
                            unsafe_patterns |-> analyzer.unsafe_patterns,
                            defined_methods |-> analyzer.defined_methods,
                            error |-> <<>>]]

------------------------------------------------------------------------------
(* oci.OCIClient: a JSON object is a record; d.get(key, default) reads it *)

RequestEvent(what, ref) == [kind |-> "request", what |-> what, args |-> <<ref>>]

\* index.get("manifests", [])
get_manifests(index) == IF "manifests" \in DOMAIN index THEN index.manifests ELSE <<>>

\* img_manifest.get("layers", [])
get_layers(img_manifest) ==
    IF "layers" \in DOMAIN img_manifest THEN img_manifest.layers ELSE <<>>

\* p = m.get("platform", {}); p.get("architecture") == arch and p.get("os") == "linux"
platform_matches(m, arch) ==
    /\ "platform" \in DOMAIN m
    /\ "architecture" \in DOMAIN m.platform
    /\ m.platform.architecture = arch
    /\ "os" \in DOMAIN m.platform
    /\ m.platform.os = "linux"

\* _detect_arch as it would be if an unknown machine fell back to amd64
_detect_arch_fallback(host_machine) ==
    IF host_machine \in {"aarch64", "arm64"} THEN "arm64" ELSE "amd64"

\* OCIClient._detect_arch: "" stands for the RuntimeError it raises
_detect_arch(host_machine) ==
    IF host_machine \in {"x86_64", "AMD64"} THEN "amd64"
    ELSE IF host_machine \in {"aarch64", "arm64"} THEN "arm64"
    ELSE ""

\* os.path.basename(dest)
basename(path) == LET parts == SplitOn(path, "/", <<>>) IN parts[Len(parts)]

Entrypoint == <<"-", "e", "n", "t", "r", "y", "p", "o", "i", "n", "t">>

\* the names looked for when binary_names is None (here <<>>)
default_binary_names(dest) ==
    LET base == lstrip(basename(dest), {"-"}) IN <<base, base \o Entrypoint>>

\* the first member of the archive that is the binary (0 when none is)
find_member(members, binary_names) ==
    LET found == {k \in 1..Len(members) :
                    /\ lstrip(members[k].name, {".", "/"}) \in Range(binary_names)
                    /\ members[k].type = "file"}
    IN IF found = {} THEN 0 ELSE CHOOSE k \in found : \A j \in found : k <= j

\* what a pull ends with: its events, its exception, the file it wrote (if any)
pulled(evs, exc, written) == [events |-> evs, raised |-> exc, written |-> written]

\* the events of installing the binary found in a layer
install_events(dest) ==
    <<LogEvent("Found binary"), FileEvent("makedirs", dest), FileEvent("write", dest),
      FileEvent("chmod", dest), LogEvent("Installed binary")>>

\* the events up to a write to dest that fails: dest has been opened for writing
write_events(dest) ==
    <<LogEvent("Found binary"), FileEvent("makedirs", dest), FileEvent("write", dest)>>

\* the file at dest once open(dest, "wb") has truncated or created it and the
\* write has failed: it holds what was written of the binary until then, and its
\* mode is resolved against the file that was there
TruncatedFile == [data |-> "partial", mode |-> "kept"]

\* the binary of a layer is installed at dest, or the write fails on a full disk
install(fetch, dest, data, disk) ==
    IF disk = "full"
    THEN pulled(fetch \o write_events(dest), "OSError", <<TruncatedFile>>)
    ELSE pulled(fetch \o install_events(dest), "none", <<[data |-> data, mode |-> "0o755"]>>)

RECURSIVE scan_layers(_, _, _, _, _, _)
RECURSIVE scan_layers_last(_, _, _, _, _, _)
\* the loop over the layers as it would be if a match did not end it, so that
\* every layer is fetched and the last match is the one left at dest
scan_layers_last(served, layers, i, dest, binary_names, disk) ==
    IF i > Len(layers)
    THEN pulled(<<>>, "RuntimeError: Binary not found in any layer", <<>>)
    ELSE
      LET digest == layers[i].digest
          fetch == <<LogEvent("Downloading layer"), RequestEvent("blob", digest)>>
          rest == scan_layers_last(served, layers, i + 1, dest, binary_names, disk)
          skip == pulled(fetch \o rest.events, rest.raised, rest.written)
      IN IF digest \notin DOMAIN served.blobs
         THEN pulled(fetch, "HTTPError", <<>>)
         ELSE LET blob == served.blobs[digest]
              IN IF blob.kind = "damaged" THEN pulled(fetch, "zlib.error", <<>>)
                 ELSE IF blob.kind # "tar" THEN skip
                 ELSE LET k == find_member(blob.members, binary_names)
                      IN IF k = 0 THEN skip
                         ELSE IF disk = "full"
                         THEN install(fetch, dest, blob.members[k].data, disk)
                         ELSE pulled(fetch \o install_events(dest) \o rest.events,
                                     IF rest.written # <<>> THEN rest.raised ELSE "none",
                                     IF rest.written # <<>> THEN rest.written
                                     ELSE <<[data |-> blob.members[k].data, mode |-> "0o755"]>>)

\* the loop over the layers, from layer i on; a layer that tarfile cannot read
\* (TarError, EOFError) is passed over, while the error of a decompressor
\* (zlib.error, lzma.LZMAError, gzip.BadGzipFile) is not among the caught ones
scan_layers(served, layers, i, dest, binary_names, disk) ==
    IF i > Len(layers)
    THEN pulled(<<>>, "RuntimeError: Binary not found in any layer", <<>>)
    ELSE
      LET digest == layers[i].digest
          fetch == <<LogEvent("Downloading layer"), RequestEvent("blob", digest)>>
          rest == scan_layers(served, layers, i + 1, dest, binary_names, disk)
          skip == pulled(fetch \o rest.events, rest.raised, rest.written)
      IN IF digest \notin DOMAIN served.blobs
         THEN pulled(fetch, "HTTPError", <<>>)
         ELSE LET blob == served.blobs[digest]
              IN IF blob.kind = "damaged" THEN pulled(fetch, "zlib.error", <<>>)
                 ELSE IF blob.kind # "tar" THEN skip
                 ELSE LET k == find_member(blob.members, binary_names)
                      IN IF k = 0 THEN skip
                         ELSE install(fetch, dest, blob.members[k].data, disk)

\* the first entry of the manifest list for linux/arch (0 when there is none)
find_manifest(manifests, arch) ==
    LET found == {k \in 1..Len(manifests) : platform_matches(manifests[k], arch)}
    IN IF found = {} THEN 0 ELSE CHOOSE k \in found : \A j \in found : k <= j

\* OCIClient.pull_binary(image, dest, tag, binary_names)
pull_binary(host_machine, disk, served, image, dest, tag, binary_names) ==
    LET arch == _detect_arch(host_machine)
        names == IF binary_names = <<>> THEN default_binary_names(dest) ELSE binary_names
        asked == <<LogEvent("Pulling binary"), RequestEvent("token", image),
                   RequestEvent("manifest", tag)>>
        k == find_manifest(get_manifests(served.index), arch)
    IN IF arch = "" THEN pulled(<<>>, "RuntimeError: Unsupported architecture", <<>>)
       ELSE IF served.auth # "ok"
            THEN pulled(<<LogEvent("Pulling binary"), RequestEvent("token", image)>>,
                        "HTTPError", <<>>)
       ELSE IF k = 0 \/ get_manifests(served.index)[k].digest = <<>>
            THEN pulled(asked, "RuntimeError: No linux manifest found", <<>>)
       ELSE LET arch_digest == get_manifests(served.index)[k].digest
                found == asked \o <<LogEvent("Found manifest"),
                                    RequestEvent("manifest", arch_digest)>>
            IN IF arch_digest \notin DOMAIN served.images
               THEN pulled(found, "HTTPError", <<>>)
               ELSE LET layers == get_layers(served.images[arch_digest])
                        scanned == scan_layers(served, layers, 1, dest, names, disk)
                    IN pulled(found \o <<LogEvent("Scanning layers")>> \o scanned.events,
                              scanned.raised, scanned.written)

------------------------------------------------------------------------------
(* BaseApp helpers that reach the network and the filesystem *)

\* self.permissions.<check>(value): the check is made and raises when the gate
\* does not allow the value
gate(check, value, ok) ==
    [events |-> <<CheckEvent(check, value)>>,
     raised |-> IF ok THEN "none" ELSE "PermissionDeniedError"]

DockerAuthUrl ==
    Https \o <<"a", "u", "t", "h", ".", "d", "o", "c", "k", "e", "r", ".", "i", "o", "/", "*">>
DockerRegistryUrl ==
    Https \o <<"r", "e", "g", "i", "s", "t", "r", "y", "-", "1", ".",
               "d", "o", "c", "k", "e", "r", ".", "i", "o", "/", "*">>

\* the validation after the extraction: subprocess.run(["ldd", dest]); ldd is
\* "absent" (FileNotFoundError, passed over), "missing" (libraries not found,
\* a warning) or "ok"
ldd_check(dest, ldd) ==
    IF ldd = "absent" THEN Done(<<>>)
    ELSE IF ldd = "missing"
    THEN Done(<<RunEvent("ldd", <<dest>>), LogEvent("Binary has missing shared libraries")>>)
    ELSE Done(<<RunEvent("ldd", <<dest>>)>>)

\* the three checks pull_oci_binary starts with
pull_oci_checks(p, implicit, dest) ==
    Then(gate("check_url", DockerAuthUrl, check_url(p, DockerAuthUrl)),
    Then(gate("check_url", DockerRegistryUrl, check_url(p, DockerRegistryUrl)),
         gate("check_path", dest, check_path(p, implicit, dest))))

\* pull_oci_binary as it would be with the destination checked after the pull
pull_oci_binary_late_check(p, implicit, host, served, image, dest, tag) ==
    LET urls == Then(gate("check_url", DockerAuthUrl, check_url(p, DockerAuthUrl)),
                     gate("check_url", DockerRegistryUrl, check_url(p, DockerRegistryUrl)))
        result == pull_binary(host.machine, host.disk, served, image, dest, tag, <<>>)
        path == gate("check_path", dest, check_path(p, implicit, dest))
    IN IF urls.raised # "none" THEN pulled(urls.events, urls.raised, <<>>)
       ELSE IF result.raised # "none"
       THEN pulled(urls.events \o result.events, result.raised, result.written)
       ELSE pulled(urls.events \o result.events \o path.events
                     \o (IF path.raised = "none" THEN ldd_check(dest, host.ldd).events
                         ELSE <<>>),
                   path.raised, result.written)

\* BaseApp.pull_oci_binary(image, dest, tag); host is the machine, the disk and
\* the ldd of the container
pull_oci_binary(p, implicit, host, served, image, dest, tag) ==
    LET checked == pull_oci_checks(p, implicit, dest)
        result == pull_binary(host.machine, host.disk, served, image, dest, tag, <<>>)
    IN IF checked.raised # "none" THEN pulled(checked.events, checked.raised, <<>>)
       ELSE IF result.raised # "none"
       THEN pulled(checked.events \o result.events, result.raised, result.written)
       ELSE pulled(checked.events \o result.events \o ldd_check(dest, host.ldd).events,
                   "none", result.written)

\* time.sleep(seconds)
SleepEvent(seconds) == [kind |-> "sleep", what |-> "time.sleep", args |-> <<seconds>>]
\* what the helper returned to its caller
ReturnEvent(value) == [kind |-> "return", what |-> value, args |-> <<>>]
\* urllib.request.urlopen(url, timeout=interval) and how it was answered: with a
\* status, or "refused" for an exception
UrlopenEvent(url, answer) == [kind |-> "request", what |-> "urlopen", args |-> <<url, answer>>]

\* the answer to the k-th request of a poll: the endpoint answers 200 from
\* request up_at on (never when up_at is 0) and with failure before
answer_to(k, up_at, failure) == IF up_at # 0 /\ k >= up_at THEN "200" ELSE failure

RECURSIVE poll(_, _, _, _, _, _)
RECURSIVE poll_sleep_always(_, _, _, _, _, _)
\* the loop of wait_for_http as it would be with a sleep after every failed attempt
poll_sleep_always(url, interval, attempts, i, up_at, failure) ==
    IF i >= attempts
    THEN Done(<<LogEvent("Timeout waiting for HTTP 200"), ReturnEvent("False")>>)
    ELSE LET answer == answer_to(i + 1, up_at, failure)
         IN IF answer = "200"
            THEN Done(<<UrlopenEvent(url, answer), LogEvent("HTTP 200 received"),
                        ReturnEvent("True")>>)
            ELSE Then(Done(<<UrlopenEvent(url, answer), SleepEvent(interval)>>),
                      poll_sleep_always(url, interval, attempts, i + 1, up_at, failure))

\* for i in range(attempts): ..., from attempt i on, and what follows the loop
poll(url, interval, attempts, i, up_at, failure) ==
    IF i >= attempts
    THEN Done(<<LogEvent("Timeout waiting for HTTP 200"), ReturnEvent("False")>>)
    ELSE LET answer == answer_to(i + 1, up_at, failure)
         IN IF answer = "200"
            THEN Done(<<UrlopenEvent(url, answer), LogEvent("HTTP 200 received"),
                        ReturnEvent("True")>>)
            ELSE Then(Done(<<UrlopenEvent(url, answer)>>
                           \o (IF i < attempts - 1 THEN <<SleepEvent(interval)>> ELSE <<>>)),
                      poll(url, interval, attempts, i + 1, up_at, failure))

\* max(1, timeout // interval)
max_attempts(timeout, interval) ==
    IF timeout \div interval > 1 THEN timeout \div interval ELSE 1

\* BaseApp.wait_for_http(url, timeout, interval)
wait_for_http(p, url, timeout, interval, up_at, failure) ==
    Then(gate("check_url", url, check_url(p, url)),
    Then(log_info("Waiting for HTTP 200"),
         IF interval = 0 THEN [events |-> <<>>, raised |-> "ZeroDivisionError"]
         ELSE poll(url, interval, max_attempts(timeout, interval), 0, up_at, failure)))

\* os.path.dirname(path)
dirname(path) ==
    LET slashes == {k \in 1..Len(path) : path[k] = "/"}
    IN IF slashes = {} THEN <<>>
       ELSE LET head == SubSeq(path, 1, CHOOSE k \in slashes : \A j \in slashes : j <= k)
            IN IF Range(head) = {"/"} THEN head ELSE rstrip(head, {"/"})

\* s.endswith(suffix)
EndsWith(s, suffix) ==
    /\ Len(s) >= Len(suffix)
    /\ SubSeq(s, Len(s) - Len(suffix) + 1, Len(s)) = suffix

DotGpg == <<".", "g", "p", "g">>
DotList == <<".", "l", "i", "s", "t">>
UsrShareKeyrings == <<"/", "u", "s", "r", "/", "s", "h", "a", "r", "e", "/", "k", "e", "y", "r", "i", "n", "g", "s", "/">>
SourcesListD == <<"/", "e", "t", "c", "/", "a", "p", "t", "/", "s", "o", "u", "r", "c", "e", "s", ".", "l", "i", "s", "t", ".", "d", "/">>
DebSignedBy == <<"d", "e", "b", " ", "[", "s", "i", "g", "n", "e", "d", "-", "b", "y", "=">>

\* whether the platform module has the apt functions: hasattr(self._platform, ...)
has_apt(platform) == platform # "alpine"

\* platform_debian.add_apt_key(app, url, keyring_path); rcs are the exit codes of
\* curl and of gpg
debian_add_apt_key(url, keyring_path, rcs) ==
    Then(log_info("Adding APT key"),
    Then(Done(<<FileEvent("makedirs", dirname(keyring_path))>>),
    Then([events |-> <<RunEvent("curl -fsSL", <<url>>)>>,
          raised |-> IF rcs[1] # 0 THEN "RuntimeError" ELSE "none"],
         IF EndsWith(keyring_path, DotGpg)
         THEN [events |-> <<FileEvent("write", keyring_path), RunEvent("gpg --dearmor", <<>>)>>,
               raised |-> IF rcs[2] # 0 THEN "RuntimeError" ELSE "none"]
         ELSE Done(<<FileEvent("write", keyring_path)>>))))

\* BaseApp.add_apt_key(url, keyring_path)
add_apt_key(p, implicit, platform, url, keyring_path, rcs) ==
    IF ~has_apt(platform) THEN [events |-> <<>>, raised |-> "RuntimeError"]
    ELSE Then(gate("check_url", url, check_url(p, url)),
         Then(gate("check_path", keyring_path, check_path(p, implicit, keyring_path)),
              debian_add_apt_key(url, keyring_path, rcs)))

\* platform_debian.add_apt_repo(app, repo_line, filename)
debian_add_apt_repo(p, implicit, repo_line, filename) ==
    LET dest == SourcesListD \o filename
    IN Then(gate("check_path", dest, check_path(p, implicit, dest)),
       Then(log_info("Adding APT repo"),
            Done(<<FileEvent("makedirs", dirname(dest)), FileEvent("write", dest)>>)))

\* BaseApp.add_apt_repo(repo_line, filename)
add_apt_repo(p, implicit, platform, repo_line, filename) ==
    IF ~has_apt(platform) THEN [events |-> <<>>, raised |-> "RuntimeError"]
    ELSE Then(gate("check_apt_repo", repo_line, check_apt_repo(p, repo_line)),
              debian_add_apt_repo(p, implicit, repo_line, filename))

\* platform_debian.add_apt_repository(app, repo_url, key_url, name, suite,
\* components) for a call that gives name and suite
debian_add_apt_repository(p, implicit, platform, repo_url, key_url, name, suite, rcs) ==
    LET keyring_path == UsrShareKeyrings \o name \o DotGpg
        repo_line == DebSignedBy \o keyring_path \o <<"]", " ">> \o repo_url \o <<" ">>
                       \o suite \o <<" ", "m", "a", "i", "n">>
    IN Then(add_apt_key(p, implicit, platform, key_url, keyring_path, rcs),
            add_apt_repo(p, implicit, platform, repo_line, name \o DotList))

\* BaseApp.add_apt_repository(repo_url, key_url, name, suite)
add_apt_repository(p, implicit, platform, repo_url, key_url, name, suite, rcs) ==
    IF ~has_apt(platform) THEN [events |-> <<>>, raised |-> "RuntimeError"]
    ELSE Then(gate("check_url", repo_url, check_url(p, repo_url)),
         Then(gate("check_url", key_url, check_url(p, key_url)),
              debian_add_apt_repository(p, implicit, platform, repo_url, key_url, name,
                                        suite, rcs)))

------------------------------------------------------------------------------
(* Inputs *)

\* all concatenations of at most n pieces
PiecesUpTo(pieces, n) ==
    UNION {{Concat(f) : f \in [1..k -> pieces]} : k \in 0..n}

\* all strings of at most n characters
StringsUpTo(chars, n) == UNION {[1..k -> chars] : k \in 0..n}

\* all lists of at most n entries
ListsUpTo(entries, n) == UNION {[1..k -> entries] : k \in 0..n}

\* the allowlists of an enumerated manifest: empty, one of the entries alone,
\* or a one-piece entry followed by a fixed second entry
AllowlistsOf(entries, pieces, second) ==
    {<<>>} \cup {<<e>> : e \in entries} \cup {<<e, second>> : e \in pieces \cup {<<>>}}

(* paths *)
PathPieces == {<<"/">>, <<".">>, <<".", ".">>, <<"a">>}

OptApp == <<"/", "o", "p", "t", "/", "a", "p", "p">>
OptAppSubFile == OptApp \o <<"/", "s", "u", "b", "/", "f", "i", "l", "e">>
OptApp2File == OptApp \o <<"2", "/", "f", "i", "l", "e">>
OptAppEtcPasswd ==
    OptApp \o <<"/", ".", ".", "/", ".", ".", "/", "e", "t", "c", "/", "p", "a", "s", "s", "w", "d">>
TmpFile == <<"/", "t", "m", "p", "/", "a">>

PathEntries == PiecesUpTo(PathPieces, MaxEntryPieces) \cup {OptApp}
PathInputs ==
    PiecesUpTo(PathPieces, MaxPathPieces)
        \cup {OptApp, OptAppSubFile, OptApp2File, OptAppEtcPasswd, TmpFile}

\* manifests that declare nothing, or only path prefixes
PathDecls == {<<>>} \cup {("paths" :> L) : L \in AllowlistsOf(PathEntries, PathPieces, OptApp)}

(* glob patterns and names *)
GlobPieces == {<<"a">>, <<"*">>, <<"?">>, <<"[", "a", "]">>, <<"<">>}
NameChars == {"a", "x", "<", " "}

Foo == <<"f", "o", "o">>
FooLt2 == Foo \o <<"<", "2">>
FooSpLt2 == Foo \o <<" ", "<", "2">>
FooAllGe1 == Foo \o <<"[", "a", "l", "l", "]", ">", "=", "1">>
FooBar == Foo \o <<"-", "b", "a", "r">>
AStar == <<"a", "*">>

GlobEntries == PiecesUpTo(GlobPieces, MaxGlobPieces) \cup {Foo, <<" ", "a">>}
\* the entries without glob metacharacter
LiteralEntries == {e \in GlobEntries : \A k \in 1..Len(e) : e[k] \notin {"*", "?", "["}}
\* short names, the literal entries themselves and followed by "x", and the examples
GlobInputs ==
    StringsUpTo(NameChars, MaxNameLen)
        \cup LiteralEntries \cup {e \o <<"x">> : e \in LiteralEntries}
        \cup {FooLt2, FooSpLt2, FooAllGe1, FooBar, AStar}
LegacyEntries == {<<"a">>, AStar, <<"?">>}

\* manifests that declare the same patterns for packages, pip, urls and commands,
\* or URL patterns together with legacy installer scripts
GlobDecls ==
    {[c \in {"packages", "pip", "urls", "commands"} |-> L] :
        L \in AllowlistsOf(GlobEntries, GlobPieces, Foo)}
    \cup {("urls" :> U) @@ ("installer_scripts" :> S) :
            U \in AllowlistsOf(LegacyEntries, {}, <<"a">>),
            S \in AllowlistsOf(LegacyEntries, {}, <<"a">>)}

(* APT repository lines *)
HttpA == Http \o <<"a">>
HttpsA == Https \o <<"a">>
AptPieces == {HttpA, <<"a">>, <<"/">>, <<" ">>, <<"*">>}

PlexEntry ==
    <<"d", "e", "b", " ", "*", "d", "o", "w", "n", "l", "o", "a", "d", "s", ".",
      "p", "l", "e", "x", ".", "t", "v", "*">>
PlexLine ==
    <<"d", "e", "b", " ">> \o Https
      \o <<"d", "o", "w", "n", "l", "o", "a", "d", "s", ".", "p", "l", "e", "x", ".", "t", "v",
           "/", "r", "e", "p", "o", "/", "d", "e", "b", " ",
           "p", "u", "b", "l", "i", "c", " ", "m", "a", "i", "n">>

AptEntries == PiecesUpTo(AptPieces, MaxAptEntryPieces) \cup {PlexEntry, HttpsA}
AptInputs ==
    PiecesUpTo(AptPieces, MaxAptPieces)
        \cup {PlexLine, HttpsA, HttpsA \o <<"/", "a">>, <<"a", " ">> \o HttpsA \o <<"/">>}
AptDecls == {<<>>} \cup {("apt_repos" :> L) : L \in AllowlistsOf(AptEntries, AptPieces, HttpsA)}

(* sample manifests and values for the whole gate *)
NgStar == <<"n", "g", "*">>
Nginx == <<"n", "g", "i", "n", "x">>
Curl == <<"c", "u", "r", "l">>
Evil == <<"e", "v", "i", "l">>
HttpStar == Http \o <<"*">>

Sample ==
    [packages |-> <<NgStar>>, pip |-> <<Foo>>, urls |-> <<HttpStar>>, paths |-> <<OptApp>>,
     services |-> <<NgStar, Curl>>, users |-> <<NgStar>>, commands |-> <<Curl>>,
     installer_scripts |-> <<HttpsA>>, apt_repos |-> <<HttpA>>]

SampleValues ==
    {<<>>, NgStar, Nginx, Curl, Evil, Foo, FooLt2, HttpA, HttpsA, OptApp, OptAppSubFile, TmpFile}

\* the manifest that declares the sample entries of the classes in D, and nothing else
SampleDecl(D) == [c \in D |-> Sample[c]]

\* the manifest that declares the classes in D and explicitly empty lists for the others
SampleDeclOrEmpty(D) == [c \in Classes |-> IF c \in D THEN Sample[c] ELSE <<>>]

(* package helpers *)
InstallPackages == {Nginx, Foo, Evil}
InstallDecls ==
    {("packages" :> L) @@ ("pip" :> P) :
        L \in {<<>>, <<Nginx>>, <<Nginx, Foo>>}, P \in {<<>>, <<Foo>>}}
Venvs == {<<>>, OptApp}
OsTypes == {"debian", "alpine", "unknown"}
ReturnCodes == {0, 1}

(* runner *)
RunnerDecls == {Sample, SampleDecl({})}
Actions == valid_actions \cup {"bogus"}
HelperBodies ==
    [helper : {"apt_install", "pkg_install", "pip_install", "run_installer_script"},
     args : {<<Nginx>>, <<Foo>>, <<Evil>>, <<Nginx, Evil>>, <<HttpA>>},
     rcs : {<<0, 0>>, <<0, 1>>, <<1, 0>>},
     raises : {"none"}, returns : {"None", "False"}]
PlainBodies ==
    [helper : {"none"}, args : {<<>>}, rcs : {<<0, 0>>},
     raises : {"none", "ValueError"}, returns : {"None", "True", "False"}]
Invocations ==
    [argc : {4, 5}, action : Actions, files_ok : BOOLEAN, module_ok : BOOLEAN,
     registered : BOOLEAN, has_method : BOOLEAN, body : HelperBodies \cup PlainBodies]

(* analyzer: source texts *)

\* "1 +", a body that is not indented, a lone surrogate, an expression nested
\* too deep for the parser
Unparsables ==
    {Unparsable("SyntaxError", "invalid syntax", <<1>>),
     Unparsable("SyntaxError", "expected an indented block", <<2>>),
     Unparsable("UnicodeEncodeError", "surrogates not allowed", <<>>),
     Unparsable("RecursionError", "maximum recursion depth exceeded", <<>>)}

self == Name("self")
Nginx_ == Constant(StrValue("nginx"))

\* self.apt_install("nginx") as a statement
AptInstallStmt(line) == Expr(Call(line, Attribute(self, "apt_install"), <<Nginx_>>, <<>>))

\* run(name) as a statement
RunStmt(line, name) == Expr(Call(line, Name("run"), <<Name(name)>>, <<>>))

TopKinds == {"import", "class A", "class B", "class C", "run(A)", "run(B)", "def main"}

\* a top-level statement that starts at line; each takes three lines
TopItem(kind, line) ==
    CASE kind = "import" -> ImportFrom("appstore", <<"BaseApp", "run">>)
      [] kind = "class A" ->
            ClassDef("A", <<Name("BaseApp")>>,
                     <<FunctionDef("install", <<AptInstallStmt(line + 2)>>)>>)
      [] kind = "class B" ->
            ClassDef("B", <<Attribute(Name("appstore"), "BaseApp")>>,
                     <<FunctionDef("configure", <<AptInstallStmt(line + 2)>>)>>)
      [] kind = "class C" ->
            ClassDef("C", <<Name("object")>>,
                     <<FunctionDef("install", <<AptInstallStmt(line + 2)>>)>>)
      [] kind = "run(A)" -> RunStmt(line, "A")
      [] kind = "run(B)" -> RunStmt(line, "B")
      [] kind = "def main" -> FunctionDef("main", <<RunStmt(line + 1, "A")>>)

StructureScripts ==
    UNION {{Module([k \in 1..n |-> TopItem(f[k], 3 * k - 2)]) : f \in [1..n -> TopKinds]} :
            n \in 0..MaxStatements}

\* the argument expressions of an enumerated call written on line
ArgExprs(line) ==
    {Nginx_,
     Constant(StrValue("<dynamic>")),
     Constant(IntValue(1)),
     Name("x"),
     Call(line, Name("compute_key"), <<>>, <<>>),
     Call(line, Attribute(self, "g"), <<>>, <<>>),
     List(<<Constant(IntValue(1)), Name("x")>>),
     Dict(<<Constant(StrValue("a"))>>, <<Constant(IntValue(1))>>),
     Dict(<<Constant(IntValue(2)), NoneNode>>, <<Constant(IntValue(3)), Name("d")>>),
     UnaryOp("USub", Constant(IntValue(1))),
     UnaryOp("USub", Name("x")),
     Starred(Name("a"))}

Keywords ==
    {<<>>,
     <<keyword(<<"k">>, Constant(StrValue("v")))>>,
     <<keyword(<<"k">>, Name("x"))>>,
     <<keyword(<<>>, Name("kw"))>>,
     <<keyword(<<"k">>, Constant(IntValue(1))), keyword(<<>>, Name("kw"))>>}

Funcs ==
    {Attribute(self, "apt_install"),
     Attribute(Attribute(self, "inputs"), "string"),
     Attribute(Attribute(self, "log"), "info"),
     Attribute(Attribute(self, "permissions"), "check_path"),
     Attribute(Name("other"), "apt_install"),
     Attribute(Name("os"), "system"),
     Name("print")}

\* the argument expressions that are combined into longer argument lists
CoreArgs(line) ==
    {Nginx_, Name("x"), Starred(Name("a")), Call(line, Attribute(self, "g"), <<>>, <<>>)}

ArgLists(line) ==
    {<<a>> : a \in ArgExprs(line)}
    \cup UNION {[1..n -> CoreArgs(line)] : n \in 0..MaxArgs}

Calls(line) ==
    {Call(line, func, args, kws) : func \in Funcs, args \in ArgLists(line), kws \in Keywords}

\* a call inside a nested function, inside a lambda, inside a tuple display
NestedCalls(line) ==
    {Call(line, func, args, <<>>) : func \in Funcs, args \in {<<>>, <<Nginx_>>, <<Name("x")>>}}

\* class X(BaseApp) whose install holds stmt on line 3, then run(X)
ScriptWith(stmt) ==
    Module(<<ClassDef("X", <<Name("BaseApp")>>, <<FunctionDef("install", <<stmt>>)>>),
             RunStmt(4, "X")>>)

CallScripts ==
    {ScriptWith(Expr(c)) : c \in Calls(3)}
    \cup {ScriptWith(FunctionDef("helper", <<Expr(c)>>)) : c \in NestedCalls(3)}
    \cup {ScriptWith(Expr(Lambda(c))) : c \in NestedCalls(3)}
    \cup {ScriptWith(Expr(Tuple(<<c, Name("x")>>))) : c \in NestedCalls(3)}

Sources == Unparsables \cup {Script(t) : t \in StructureScripts \cup CallScripts}

(* registry client *)
Machines == {"x86_64", "aarch64", "mips"}
Gluetun == <<"g">>
UsrBinGluetun == <<"/", "b", "/", "g">>
Dests == {UsrBinGluetun}
BinaryNames == {<<>>, <<Gluetun>>}

Sha(what) == <<"sha256", what>>
File(name, data) == [name |-> name, type |-> "file", data |-> data]
Symlink(name) == [name |-> name, type |-> "symlink", data |-> ""]
\* the blobs of the repository, by digest
Blobs ==
    (Sha("plain") :> [kind |-> "tar", members |-> <<Symlink(Gluetun), File(Gluetun, "plain")>>])
    @@ (Sha("entry") :> [kind |-> "tar",
                         members |-> <<File(<<".", "/">> \o Gluetun \o Entrypoint, "entry")>>])
    @@ (Sha("other") :> [kind |-> "tar",
                         members |-> <<Symlink(Gluetun), File(<<"b", "/">> \o Gluetun, "other")>>])
    @@ (Sha("broken") :> [kind |-> "corrupt"])
    @@ (Sha("damaged") :> [kind |-> "damaged"])
\* the layers of the enumerated images; Sha("gone") is a blob the registry lacks
LayerDigests ==
    {Sha("plain"), Sha("other"), Sha("broken"), Sha("damaged"), Sha("gone")}
Layer(digest) == [digest |-> digest]
Layers ==
    UNION {[1..n -> {Layer(d) : d \in LayerDigests}] : n \in 0..MaxLayers}
ImageManifest(layers) == [schemaVersion |-> 2, layers |-> layers]
Entry(os_name, arch) ==
    [digest |-> Sha(arch), platform |-> [architecture |-> arch, os |-> os_name]]
ManifestList(manifests) == [schemaVersion |-> 2, manifests |-> manifests]
\* what the tag's manifest request is answered with when the image has layers
Shapes == {"manifest list", "foreign entries first", "image manifest"}
Index(shape, layers) ==
    IF shape = "manifest list"
    THEN ManifestList(<<Entry("linux", "amd64"), Entry("linux", "arm64")>>)
    ELSE IF shape = "foreign entries first"
    THEN ManifestList(<<[digest |-> Sha("windows"),
                         platform |-> [architecture |-> "amd64", os |-> "windows"]],
                        [digest |-> Sha("attestation")],
                        Entry("linux", "amd64")>>)
    ELSE ImageManifest(layers)
\* manifest lists without an entry for linux/amd64
PartialLists == {ManifestList(<<Entry("linux", "arm64")>>), ManifestList(<<>>)}
Registry(index, layers) ==
    [auth |-> "ok",
     index |-> index,
     images |-> (Sha("amd64") :> ImageManifest(layers))
                @@ (Sha("arm64") :> ImageManifest(<<Layer(Sha("other")), Layer(Sha("entry"))>>)),
     blobs |-> Blobs]
\* the registry when its token endpoint turns the request down
Unauthorized(served) == [served EXCEPT !.auth = "denied"]
\* whether the disk of the host takes the binary
Disks == {"ok", "full"}
\* every image behind a plain manifest list, and the one-layer images behind
\* each shape of answer
Registries ==
    {Registry(Index("manifest list", layers), layers) : layers \in Layers}
    \cup {Registry(Index(shape, <<layer>>), <<layer>>) :
             shape \in Shapes, layer \in {Layer(d) : d \in LayerDigests}}
    \cup {Unauthorized(Registry(Index(shape, <<Layer(Sha("plain"))>>), <<Layer(Sha("plain"))>>)) :
             shape \in Shapes}
    \cup {Registry(index, <<Layer(Sha("plain"))>>) : index \in PartialLists}

(* helpers of the network and the filesystem *)
UsrBin == <<"/", "b">>
HelperUrls ==
    {<<>>, <<DockerRegistryUrl>>, <<DockerAuthUrl, DockerRegistryUrl>>, <<Https \o <<"*">>>>}
HelperPaths == {<<>>, <<UsrBin>>, <<rstrip(UsrShareKeyrings, {"/"})>>, <<<<"/">>>>}
HelperAptRepos == {<<>>, <<HttpsA>>}
HelperDecls ==
    {("urls" :> U) @@ ("paths" :> P) @@ ("apt_repos" :> R) :
        U \in HelperUrls, P \in HelperPaths, R \in HelperAptRepos}
\* images with the binary in the first layer, in no layer, behind a layer that is
\* no archive, and a registry that denies the token
HelperRegistries ==
    {Registry(Index("manifest list", layers), layers) :
        layers \in {<<Layer(Sha("plain"))>>, <<Layer(Sha("other"))>>,
                    <<Layer(Sha("broken")), Layer(Sha("plain"))>>}}
    \cup {Unauthorized(Registry(Index("manifest list", <<Layer(Sha("plain"))>>),
                                <<Layer(Sha("plain"))>>))}
Ldds == {"ok", "missing", "absent"}
MaxTimeout == 6
MaxInterval == 3
PolledUrls == {HttpA, HttpsA}
Timeouts == (0 - 1)..MaxTimeout
Intervals == 0..MaxInterval
\* what a request is answered with while the endpoint is not up: an exception of
\* urlopen, or a response whose status is not 200
Failures == {"refused", "204"}

(* archive entries *)
\* the names of the entries of a layer: the binary at the root as tar writes it,
\* with other leading runs of dots and slashes, below a directory, with a
\* suffix, and the entrypoint
EntryNames ==
    {Gluetun, <<".", "/">> \o Gluetun, <<".">> \o Gluetun, <<".", ".", "/">> \o Gluetun,
     <<"/">> \o Gluetun, <<"b", "/">> \o Gluetun, Gluetun \o <<".">>,
     <<".", "/">> \o Gluetun \o Entrypoint}
EntryTypes == {"file", "dir", "symlink"}
Member(name, type, data) == [name |-> name, type |-> type, data |-> data]
\* the archives of one entry and of two entries
EntryLists ==
    {<<Member(name, type, "first")>> : name \in EntryNames, type \in EntryTypes}
    \cup {<<Member(n1, t1, "first"), Member(n2, t2, "second")>> :
             n1 \in EntryNames, t1 \in EntryTypes, n2 \in EntryNames, t2 \in EntryTypes}
\* an image of one layer, an archive of the entries members
EntryRegistry(members) ==
    [auth |-> "ok",
     index |-> ManifestList(<<Entry("linux", "amd64")>>),
     images |-> (Sha("amd64") :> ImageManifest(<<Layer(Sha("entries"))>>)),
     blobs |-> (Sha("entries") :> [kind |-> "tar", members |-> members])]
EntryRegistries == {EntryRegistry(members) : members \in EntryLists}

------------------------------------------------------------------------------
(* State machine *)

NoCheck == [script |-> 0, check |-> "none", value |-> <<>>, allowed |-> FALSE]
NoCall == [script |-> 0, helper |-> "none", packages |-> <<>>]
NoBody == [helper |-> "none", args |-> <<>>, rcs |-> <<0, 0>>, raises |-> "none", returns |-> "None"]
NoInvocation == [argc |-> 0, action |-> "", files_ok |-> FALSE, module_ok |-> FALSE,
                 registered |-> FALSE, has_method |-> FALSE, body |-> NoBody]
Running == <<>>
NoSource == [kind |-> "none"]
NoRegistry ==
    [auth |-> "ok", index |-> [schemaVersion |-> 2], images |-> <<>>, blobs |-> <<>>]
NoFiles == [path \in Dests |-> <<>>]
NoPull ==
    [image |-> "", dest |-> <<>>, tag |-> "", binary_names |-> <<>>, disk |-> "ok",
     before |-> <<>>]

\* the state after the engine constructed the script instances of the manifests
\* decls, on a container whose detect_os() gave os_type
InitContainer(decls, os_type) ==
    /\ manifest = decls
    /\ perms = [i \in DOMAIN decls |-> AppPermissions(decls[i])]
    /\ implicit_paths = ImplicitPaths
    /\ last = NoCheck
    /\ os = os_type
    /\ call = NoCall
    /\ events = <<>>
    /\ raised = "none"
    /\ invocation = NoInvocation
    /\ exit_status = Running
    /\ analyzed = NoSource
    /\ sheet = empty_result
    /\ files = NoFiles
    /\ pull = NoPull

\* the host the container runs on and the registry its pulls talk to
InitHost(host_machine, served) ==
    /\ machine = host_machine
    /\ registry = served

InitWith(decls, os_type) ==
    /\ InitContainer(decls, os_type)
    /\ InitHost("x86_64", NoRegistry)

Idle ==
    /\ last = NoCheck
    /\ call = NoCall
    /\ invocation = NoInvocation
    /\ analyzed = NoSource
    /\ pull = NoPull

\* script instance i calls permissions.check_package(package)
CheckPackage(i, package) ==
    /\ Idle
    /\ last' = [script |-> i, check |-> "check_package", value |-> package,
                allowed |-> check_package(perms[i], package)]
    /\ UNCHANGED allowlists
    /\ UNCHANGED appVars
    /\ UNCHANGED toolVars

CheckPipPackage(i, package) ==
    /\ Idle
    /\ last' = [script |-> i, check |-> "check_pip_package", value |-> package,
                allowed |-> check_pip_package(perms[i], package)]
    /\ UNCHANGED allowlists
    /\ UNCHANGED appVars
    /\ UNCHANGED toolVars

CheckUrl(i, url) ==
    /\ Idle
    /\ last' = [script |-> i, check |-> "check_url", value |-> url,
                allowed |-> check_url(perms[i], url)]
    /\ UNCHANGED allowlists
    /\ UNCHANGED appVars
    /\ UNCHANGED toolVars

\* check_path as it would be if it extended the shared class attribute in place
CheckPath_extend(i, path) ==
    /\ Idle
    /\ last' = [script |-> i, check |-> "check_path", value |-> path,
                allowed |-> check_path(perms[i], implicit_paths, path)]
    /\ implicit_paths' = implicit_paths \o perms[i].paths
    /\ UNCHANGED <<manifest, perms>>
    /\ UNCHANGED appVars
    /\ UNCHANGED toolVars

CheckPath(i, path) ==
    /\ Idle
    /\ last' = [script |-> i, check |-> "check_path", value |-> path,
                allowed |-> check_path(perms[i], implicit_paths, path)]
    /\ UNCHANGED allowlists
    /\ UNCHANGED appVars
    /\ UNCHANGED toolVars

CheckService(i, service) ==
    /\ Idle
    /\ last' = [script |-> i, check |-> "check_service", value |-> service,
                allowed |-> check_service(perms[i], service)]
    /\ UNCHANGED allowlists
    /\ UNCHANGED appVars
    /\ UNCHANGED toolVars

CheckUser(i, user) ==
    /\ Idle
    /\ last' = [script |-> i, check |-> "check_user", value |-> user,
                allowed |-> check_user(perms[i], user)]
    /\ UNCHANGED allowlists
    /\ UNCHANGED appVars
    /\ UNCHANGED toolVars

CheckCommand(i, cmd) ==
    /\ Idle
    /\ last' = [script |-> i, check |-> "check_command", value |-> cmd,
                allowed |-> check_command(perms[i], cmd)]
    /\ UNCHANGED allowlists
    /\ UNCHANGED appVars
    /\ UNCHANGED toolVars

CheckInstallerScript(i, url) ==
    /\ Idle
    /\ last' = [script |-> i, check |-> "check_installer_script", value |-> url,
                allowed |-> check_installer_script(perms[i], url)]
    /\ UNCHANGED allowlists
    /\ UNCHANGED appVars
    /\ UNCHANGED toolVars

CheckAptRepo(i, repo_line) ==
    /\ Idle
    /\ last' = [script |-> i, check |-> "check_apt_repo", value |-> repo_line,
                allowed |-> check_apt_repo(perms[i], repo_line)]
    /\ UNCHANGED allowlists
    /\ UNCHANGED appVars
    /\ UNCHANGED toolVars

\* the check in flight returns, or its PermissionDeniedError reaches the caller
Return ==
    /\ last # NoCheck
    /\ last' = NoCheck
    /\ UNCHANGED allowlists
    /\ UNCHANGED appVars
    /\ UNCHANGED toolVars

\* the file at dest after open(dest, "wb"): a failed write leaves the mode of the
\* file that was there, or the mode of a newly created file
opened(before, written) ==
    IF written = <<TruncatedFile>>
    THEN <<[data |-> TruncatedFile.data,
            mode |-> IF before = <<>> THEN "0o644" ELSE before[1].mode]>>
    ELSE written

\* the outcome of a helper call is recorded
Called(i, helper, packages, result) ==
    /\ Idle
    /\ call' = [script |-> i, helper |-> helper, packages |-> packages]
    /\ events' = result.events
    /\ raised' = result.raised
    /\ UNCHANGED <<os>>
    /\ UNCHANGED gateVars
    /\ UNCHANGED toolVars

\* script instance i calls self.apt_install(*packages)
AptInstall(i, packages, rcs) ==
    Called(i, "apt_install", packages, apt_install(perms[i], packages, rcs))

\* script instance i calls self.pkg_install(*packages)
PkgInstall(i, packages, rcs) ==
    Called(i, "pkg_install", packages, pkg_install(perms[i], os, packages, rcs))

\* script instance i calls self.pip_install(*packages, venv=venv)
PipInstall(i, packages, venv, has_pip, rcs) ==
    Called(i, "pip_install", packages, pip_install(perms[i], packages, venv, has_pip, rcs))

\* the outcome of a helper call that talks to the registry is recorded
CalledRegistry(i, helper, args, served, result) ==
    /\ call' = [script |-> i, helper |-> helper, packages |-> args]
    /\ registry' = served
    /\ events' = result.events
    /\ raised' = result.raised
    /\ files' = IF result.written = <<>> THEN files
                ELSE [files EXCEPT ![args[1]] = opened(files[args[1]], result.written)]
    /\ UNCHANGED <<os, invocation, exit_status, analyzed, sheet, machine, pull>>
    /\ UNCHANGED gateVars

\* script instance i calls self.pull_oci_binary("qmcgaw/gluetun", dest)
PullOciBinary(i, served, dest, disk, ldd) ==
    CalledRegistry(i, "pull_oci_binary", <<dest>>, served,
                   pull_oci_binary(perms[i], implicit_paths,
                                   [machine |-> machine, disk |-> disk, ldd |-> ldd],
                                   served, "qmcgaw/gluetun", dest, "latest"))

\* script instance i calls self.wait_for_http(url, timeout, interval)
WaitForHttp(i, url, timeout, interval, up_at, failure) ==
    Called(i, "wait_for_http", <<url, timeout, interval>>,
           wait_for_http(perms[i], url, timeout, interval, up_at, failure))

\* script instance i calls self.add_apt_repository(repo_url, key_url, name=name,
\* suite=suite)
AddAptRepository(i, repo_url, key_url, name, suite, rcs) ==
    Called(i, "add_apt_repository", <<repo_url, key_url, name, suite>>,
           add_apt_repository(perms[i], implicit_paths, os, repo_url, key_url, name, suite,
                              rcs))

\* script instance i calls self.run_installer_script(url); rcs are the exit codes
\* of curl and of bash
RunInstallerScript(i, url, rcs) ==
    Called(i, "run_installer_script", <<url, rcs[1], rcs[2]>>,
           run_installer_script(perms[i], url, rcs))

\* the helper call in flight returns, or its exception reaches the caller
HelperReturn ==
    /\ call # NoCall
    /\ call' = NoCall
    /\ events' = <<>>
    /\ raised' = "none"
    /\ registry' = NoRegistry
    /\ UNCHANGED <<os, invocation, exit_status, analyzed, sheet, machine, files, pull>>
    /\ UNCHANGED gateVars

\* the process has ended: what it logged and ran, its exception, its exit status
Ended(ended) ==
    /\ events' = ended.events
    /\ raised' = ended.raised
    /\ exit_status' = ended.status

\* the engine starts `python3 -m appstore.runner ...` for script instance i; the
\* process runs to its end
Main(i, inv) ==
    /\ Idle
    /\ invocation' = inv
    /\ Ended(main(inv, perms[i], os))
    /\ UNCHANGED <<os, call, analyzed, sheet, ociVars>>
    /\ UNCHANGED gateVars

\* the engine has collected the exit status
Exit ==
    /\ invocation # NoInvocation
    /\ invocation' = NoInvocation
    /\ exit_status' = Running
    /\ events' = <<>>
    /\ raised' = "none"
    /\ UNCHANGED <<os, call, analyzed, sheet, ociVars>>
    /\ UNCHANGED gateVars

\* the engine calls analyze(source)
Analyze(source) ==
    /\ Idle
    /\ analyzed' = source
    /\ LET returned == analyze(source)
       IN /\ sheet' = returned.result
          /\ raised' = returned.raised
    /\ UNCHANGED <<os, call, events, invocation, exit_status, ociVars>>
    /\ UNCHANGED gateVars

\* the fact sheet, or the exception, has reached the engine
AnalyzeReturn ==
    /\ analyzed # NoSource
    /\ analyzed' = NoSource
    /\ sheet' = empty_result
    /\ raised' = "none"
    /\ UNCHANGED <<os, call, events, invocation, exit_status, ociVars>>
    /\ UNCHANGED gateVars

\* a script pulls a binary out of an image of the registry; the call runs to its end
PullBinary(served, dest, binary_names, disk) ==
    LET result == pull_binary(machine, disk, served, "qmcgaw/gluetun", dest, "latest",
                              binary_names)
    IN /\ pull' = [image |-> "qmcgaw/gluetun", dest |-> dest, tag |-> "latest",
                   binary_names |-> binary_names, disk |-> disk, before |-> files[dest]]
       /\ registry' = served
       /\ events' = result.events
       /\ raised' = result.raised
       /\ files' = IF result.written = <<>> THEN files
                   ELSE [files EXCEPT ![dest] = opened(files[dest], result.written)]
       /\ UNCHANGED <<os, call, invocation, exit_status, analyzed, sheet, machine>>
       /\ UNCHANGED gateVars

\* the pull has returned, or its exception has reached the script
PullReturn ==
    /\ pull # NoPull
    /\ pull' = NoPull
    /\ registry' = NoRegistry
    /\ events' = <<>>
    /\ raised' = "none"
    /\ UNCHANGED <<os, call, invocation, exit_status, analyzed, sheet, machine, files>>
    /\ UNCHANGED gateVars

------------------------------------------------------------------------------
(* Specifications *)

\* the whole gate: two script instances, each with its own manifest
Init ==
    \E D \in SUBSET Classes :
        InitWith((1 :> SampleDecl(D)) @@ (2 :> SampleDeclOrEmpty(Classes \ D)), "debian")
Next ==
    \/ \E i \in DOMAIN perms, v \in SampleValues : CheckPackage(i, v)
    \/ \E i \in DOMAIN perms, v \in SampleValues : CheckPipPackage(i, v)
    \/ \E i \in DOMAIN perms, v \in SampleValues : CheckUrl(i, v)
    \/ \E i \in DOMAIN perms, v \in SampleValues : CheckPath(i, v)
    \/ \E i \in DOMAIN perms, v \in SampleValues : CheckService(i, v)
    \/ \E i \in DOMAIN perms, v \in SampleValues : CheckUser(i, v)
    \/ \E i \in DOMAIN perms, v \in SampleValues : CheckCommand(i, v)
    \/ \E i \in DOMAIN perms, v \in SampleValues : CheckInstallerScript(i, v)
    \/ \E i \in DOMAIN perms, v \in SampleValues : CheckAptRepo(i, v)
    \/ Return
Spec == Init /\ [][Next]_vars

\* check_path over enumerated paths and declared prefixes
InitPath == \E d \in PathDecls : InitWith(1 :> d, "debian")
NextPath ==
    \/ \E i \in DOMAIN perms, path \in PathInputs : CheckPath(i, path)
    \/ Return
SpecPath == InitPath /\ [][NextPath]_vars

\* the glob checks over enumerated patterns and names
InitGlob == \E d \in GlobDecls : InitWith(1 :> d, "debian")
NextGlob ==
    \/ \E i \in DOMAIN perms, v \in GlobInputs : CheckPackage(i, v)
    \/ \E i \in DOMAIN perms, v \in GlobInputs : CheckPipPackage(i, v)
    \/ \E i \in DOMAIN perms, v \in GlobInputs : CheckUrl(i, v)
    \/ \E i \in DOMAIN perms, v \in GlobInputs : CheckCommand(i, v)
    \/ \E i \in DOMAIN perms, v \in GlobInputs : CheckInstallerScript(i, v)
    \/ Return
SpecGlob == InitGlob /\ [][NextGlob]_vars

\* check_apt_repo over enumerated repository lines and entries
InitApt == \E d \in AptDecls : InitWith(1 :> d, "debian")
NextApt ==
    \/ \E i \in DOMAIN perms, line \in AptInputs : CheckAptRepo(i, line)
    \/ Return
SpecApt == InitApt /\ [][NextApt]_vars

\* the package helpers of BaseApp
InitInstall == \E d \in InstallDecls, o \in OsTypes : InitWith(1 :> d, o)
NextInstall ==
    \/ \E i \in DOMAIN perms, pkgs \in ListsUpTo(InstallPackages, MaxPackages),
          rcs \in [1..2 -> ReturnCodes] : AptInstall(i, pkgs, rcs)
    \/ \E i \in DOMAIN perms, pkgs \in ListsUpTo(InstallPackages, MaxPackages),
          rcs \in [1..2 -> ReturnCodes] : PkgInstall(i, pkgs, rcs)
    \/ \E i \in DOMAIN perms, pkgs \in ListsUpTo(InstallPackages, MaxPackages),
          venv \in Venvs, has_pip \in BOOLEAN, rcs \in [1..2 -> ReturnCodes] :
            PipInstall(i, pkgs, venv, has_pip, rcs)
    \/ HelperReturn
SpecInstall == InitInstall /\ [][NextInstall]_vars

\* the runner process
InitRunner == \E d \in RunnerDecls, o \in {"debian", "alpine"} : InitWith(1 :> d, o)
NextRunner ==
    \/ Idle /\ \E i \in DOMAIN perms, inv \in Invocations : Main(i, inv)
    \/ Exit
SpecRunner == InitRunner /\ [][NextRunner]_vars

\* the script analyzer
InitAnalyze == InitWith(1 :> SampleDecl({}), "debian")
NextAnalyze ==
    \/ Idle /\ \E source \in Sources : Analyze(source)
    \/ AnalyzeReturn
SpecAnalyze == InitAnalyze /\ [][NextAnalyze]_vars

\* pull_binary over enumerated hosts, registries and destinations
InitOci ==
    \E host_machine \in Machines :
        /\ InitContainer(1 :> SampleDecl({}), "debian")
        /\ InitHost(host_machine, NoRegistry)
NextOci ==
    \/ Idle /\ \E served \in Registries, dest \in Dests, binary_names \in BinaryNames,
                      disk \in Disks :
                   PullBinary(served, dest, binary_names, disk)
    \/ PullReturn
SpecOci == InitOci /\ [][NextOci]_vars

\* the helpers of BaseApp that reach the network and the filesystem
InitHelpers == \E d \in HelperDecls, o \in {"debian", "alpine"} : InitWith(1 :> d, o)
NextHelpers ==
    \/ Idle /\ \E i \in DOMAIN perms, served \in HelperRegistries, dest \in Dests,
                   disk \in Disks, ldd \in Ldds :
                   PullOciBinary(i, served, dest, disk, ldd)
    \/ \E i \in DOMAIN perms, url \in PolledUrls, timeout \in Timeouts,
          interval \in Intervals, up_at \in 0..(MaxTimeout + 1), failure \in Failures :
            WaitForHttp(i, url, timeout, interval, up_at, failure)
    \/ \E i \in DOMAIN perms, repo_url \in PolledUrls, key_url \in PolledUrls,
          suite \in {<<"s">>, <<"t">>}, rcs \in [1..2 -> ReturnCodes] :
            AddAptRepository(i, repo_url, key_url, <<"a">>, suite, rcs)
    \/ \E i \in DOMAIN perms, url \in PolledUrls, rcs \in [1..2 -> ReturnCodes] :
            RunInstallerScript(i, url, rcs)
    \/ HelperReturn
SpecHelpers == InitHelpers /\ [][NextHelpers]_vars

\* pull_binary over the enumerated entries of a layer
InitEntries ==
    /\ InitContainer(1 :> SampleDecl({}), "debian")
    /\ InitHost("x86_64", NoRegistry)
NextEntries ==
    \/ Idle /\ \E served \in EntryRegistries, dest \in Dests, binary_names \in BinaryNames :
                   PullBinary(served, dest, binary_names, "ok")
    \/ PullReturn
SpecEntries == InitEntries /\ [][NextEntries]_vars

------------------------------------------------------------------------------
(* Properties of the capability gate *)

\* the allowlist of the script instance that made the check in flight
Allowlist(c) == perms[last.script][c]

CheckedClass ==
    [check_package |-> "packages", check_pip_package |-> "pip", check_url |-> "urls",
     check_path |-> "paths", check_service |-> "services", check_user |-> "users",
     check_command |-> "commands", check_installer_script |-> "installer_scripts",
     check_apt_repo |-> "apt_repos"]

\* the manifest of the checking script declares no entry for class c
Undeclared(c) ==
    \/ c \notin DOMAIN manifest[last.script]
    \/ manifest[last.script][c] = <<>>

\* C2 as stated: when the manifest declares no entries for a class, every check
\* against that class raises a violation, whatever the candidate value.
Claim_C2_DenyByDefault ==
    (last.check # "none" /\ Undeclared(CheckedClass[last.check])) => ~last.allowed

\* C2 as amended: when the manifest declares no entries for a class, every check
\* against that class raises a violation, except that check_path still admits
\* the scratch directories /tmp and /opt/venv and what lies under them (and
\* nothing else), and check_installer_script denies every URL only when no URL
\* pattern is declared either.
Thm_C2_DenyByDefault ==
    (last.check # "none" /\ Undeclared(CheckedClass[last.check])) =>
        IF last.check = "check_path"
        THEN last.allowed <=>
                \E k \in 1..Len(ImplicitPaths) :
                    \/ normpath(last.value) = ImplicitPaths[k]
                    \/ StartsWith(normpath(last.value), ImplicitPaths[k] \o <<"/">>)
        ELSE IF last.check = "check_installer_script"
        THEN Undeclared("urls") => ~last.allowed
        ELSE ~last.allowed

\* a package has been checked by a script whose manifest has no packages key
Wit_C2_UndeclaredDenied ==
    /\ last.check = "check_package"
    /\ "packages" \notin DOMAIN manifest[last.script]
    /\ "urls" \in DOMAIN manifest[last.script]
    /\ last.value = Nginx
    /\ ~last.allowed

GlobMeta == {"*", "?", "["}
HasNone(s, chars) == \A k \in 1..Len(s) : s[k] \notin chars

\* the pattern list each glob check matches against
GlobClass ==
    [check_package |-> "packages", check_command |-> "commands", check_url |-> "urls",
     check_pip_package |-> "pip", check_installer_script |-> "urls"]

\* the check in flight is a glob check against an allowlist of a single entry
SingleEntry ==
    /\ last.check \in DOMAIN GlobClass
    /\ Len(Allowlist(GlobClass[last.check])) = 1
    /\ last.check = "check_installer_script" => Allowlist("installer_scripts") = <<>>

\* that single entry
TheEntry == Allowlist(GlobClass[last.check])[1]

\* C3 as stated: for every glob check and every allowlist of a single entry e
\* without glob metacharacters, the check of e succeeds and that of e + "x" fails.
Claim_C3_LiteralEntry ==
    (SingleEntry /\ HasNone(TheEntry, GlobMeta)) =>
        /\ last.value = TheEntry => last.allowed
        /\ last.value = TheEntry \o <<"x">> => ~last.allowed

\* C3 as amended: the same, where for check_pip_package the entry e contains
\* none of the specifier characters '<', '>', '=', '!', '~', ';', '@' either.
Thm_C3_LiteralEntry ==
    (/\ SingleEntry
     /\ HasNone(TheEntry, GlobMeta)
     /\ last.check = "check_pip_package" =>
            HasNone(TheEntry, {"<", ">", "=", "!", "~", ";", "@"})) =>
        /\ last.value = TheEntry => last.allowed
        /\ last.value = TheEntry \o <<"x">> => ~last.allowed

\* a literal pip entry followed by "x" has been rejected
Wit_C3_LiteralPlusXRejected ==
    /\ SingleEntry
    /\ last.check = "check_pip_package"
    /\ HasNone(TheEntry, GlobMeta \cup {"<"})
    /\ TheEntry # <<>>
    /\ last.value = TheEntry \o <<"x">>
    /\ ~last.allowed

\* s cut at the first of the characters '[', '<', '>', '=', '!', '~', ';', '@'
Truncated(s) ==
    LET cuts == {k \in 1..Len(s) : s[k] \in {"[", "<", ">", "=", "!", "~", ";", "@"}}
    IN IF cuts = {} THEN s
       ELSE SubSeq(s, 1, (CHOOSE k \in cuts : \A j \in cuts : k <= j) - 1)

\* s without its leading and trailing blanks
Trimmed(s) ==
    LET inked == {k \in 1..Len(s) : s[k] \notin Whitespace}
    IN IF inked = {} THEN <<>>
       ELSE SubSeq(s, CHOOSE k \in inked : \A j \in inked : k <= j,
                      CHOOSE k \in inked : \A j \in inked : k >= j)

\* with 'foo' allowlisted, 'foo<2' and 'foo[all]>=1' are accepted and 'foo-bar' is rejected
PipExamples ==
    Allowlist("pip") = <<Foo>> =>
        /\ last.value = FooLt2 => last.allowed
        /\ last.value = FooAllGe1 => last.allowed
        /\ last.value = FooBar => ~last.allowed

\* C4 as stated: check_pip_package truncates the candidate and each entry at
\* the first specifier character and succeeds if and only if the truncated
\* candidate glob-matches some truncated entry.
Claim_C4_PipTruncated ==
    last.check = "check_pip_package" =>
        /\ last.allowed <=>
                \E k \in 1..Len(Allowlist("pip")) :
                    fnmatch(Truncated(last.value), Truncated(Allowlist("pip")[k]))
        /\ PipExamples

\* C4 as amended: check_pip_package truncates the candidate and each entry at
\* the first specifier character, removes the whitespace around what is left,
\* and succeeds if and only if the resulting candidate glob-matches some
\* resulting entry.
Thm_C4_PipTruncatedTrimmed ==
    last.check = "check_pip_package" =>
        /\ last.allowed <=>
                \E k \in 1..Len(Allowlist("pip")) :
                    fnmatch(Trimmed(Truncated(last.value)), Trimmed(Truncated(Allowlist("pip")[k])))
        /\ PipExamples

\* a requirement with a version specifier has been accepted for its bare name
Wit_C4_SpecifierAccepted ==
    /\ last.check = "check_pip_package"
    /\ Allowlist("pip") = <<Foo>>
    /\ last.value = FooLt2
    /\ last.allowed

\* C5: check_service(n) and check_user(n) succeed if and only if n is literally
\* an element of the services / users allowlist; 'ng*' admits only 'ng*'.
Thm_C5_ExactMembership ==
    /\ last.check = "check_service" =>
            (last.allowed <=> \E k \in 1..Len(Allowlist("services")) : Allowlist("services")[k] = last.value)
    /\ last.check = "check_user" =>
            (last.allowed <=> \E k \in 1..Len(Allowlist("users")) : Allowlist("users")[k] = last.value)

\* 'nginx' has been rejected as a service although 'ng*' is declared
Wit_C5_WildcardNotExpanded ==
    /\ last.check = "check_service"
    /\ \E k \in 1..Len(Allowlist("services")) : Allowlist("services")[k] = NgStar
    /\ last.value = Nginx
    /\ ~last.allowed

\* C6: check_installer_script(u) succeeds if and only if u glob-matches some
\* URL pattern or u is exactly equal to an entry of the legacy installer_scripts list.
Thm_C6_InstallerScript ==
    last.check = "check_installer_script" =>
        (last.allowed <=>
            \/ \E k \in 1..Len(Allowlist("urls")) : fnmatch(last.value, Allowlist("urls")[k])
            \/ \E k \in 1..Len(Allowlist("installer_scripts")) :
                    Allowlist("installer_scripts")[k] = last.value)

\* a URL matching no URL pattern has been accepted through the legacy list
Wit_C6_LegacyFallback ==
    /\ last.check = "check_installer_script"
    /\ Allowlist("urls") # <<>>
    /\ ~\E k \in 1..Len(Allowlist("urls")) : fnmatch(last.value, Allowlist("urls")[k])
    /\ last.value = AStar
    /\ last.allowed

\* C7: check_apt_repo accepts a repository line when an apt_repos entry is a
\* glob pattern that matches the whole line (entry 'deb *downloads.plex.tv*',
\* line 'deb https://downloads.plex.tv/repo/deb public main').
Claim_C7_WholeLineGlob ==
    (/\ last.check = "check_apt_repo"
     /\ last.value = PlexLine
     /\ \E k \in 1..Len(Allowlist("apt_repos")) : fnmatch(last.value, Allowlist("apt_repos")[k]))
        => last.allowed

\* s with every run of whitespace replaced by one space
RECURSIVE Collapsed(_)
Collapsed(s) ==
    IF s = <<>> THEN <<>>
    ELSE IF Head(s) \in Whitespace
         THEN <<" ">> \o Collapsed(lstrip(s, Whitespace))
    ELSE <<Head(s)>> \o Collapsed(Tail(s))

\* the line's URL token matches the entry e: equal to it, under it, or matching it as a glob
UrlTokenMatches(line, e) ==
    LET token == _extract_repo_url(line)
        trimmed == rstrip(e, {"/"})
    IN /\ token # <<>>
       /\ \/ token = trimmed
          \/ StartsWith(token, trimmed \o <<"/">>)
          \/ fnmatch(token, trimmed)

Thm_C9_ChecksArePure ==
    [][/\ manifest' = manifest
       /\ perms' = perms
       /\ implicit_paths' = implicit_paths]_vars

\* the second script has had a path denied that the first script's manifest declares
Wit_C9_CheckedAmongTwo ==
    /\ last.check = "check_path"
    /\ last.script = 2
    /\ perms[1].paths = <<OptApp>>
    /\ last.value = OptApp
    /\ ~last.allowed

------------------------------------------------------------------------------
(* Properties of the package helpers *)

\* the gate's answer for one package of the helper call in flight
PackageAllowed(pkg) ==
    IF call.helper = "pip_install" THEN check_pip_package(perms[call.script], pkg)
    ELSE check_package(perms[call.script], pkg)

\* C10: in apt_install, pkg_install and pip_install every package is checked
\* before the first subprocess is started; if any package is denied,
\* PermissionDeniedError is raised and no command has been run.
Thm_C10_ChecksBeforeCommands ==
    call.helper \in {"apt_install", "pkg_install", "pip_install"} =>
        /\ (\E k \in 1..Len(call.packages) : ~PackageAllowed(call.packages[k])) =>
                /\ raised = "PermissionDeniedError"
                /\ \A j \in 1..Len(events) : events[j].kind # "run"
        /\ \A j \in 1..Len(events) :
                events[j].kind = "run" =>
                    \A k \in 1..Len(call.packages) :
                        /\ k < j
                        /\ events[k].kind = "check"
                        /\ events[k].args = <<call.packages[k]>>

\* a call whose first package is allowed and whose second is denied has raised
Wit_C10_DeniedAfterAllowed ==
    /\ call.helper = "apt_install"
    /\ Len(call.packages) >= 2
    /\ PackageAllowed(call.packages[1])
    /\ ~PackageAllowed(call.packages[2])
    /\ raised = "PermissionDeniedError"

------------------------------------------------------------------------------
(* Properties of the runner *)

\* a gate check made by the process in flight denied its value
GateDenied ==
    \E k \in 1..Len(events) :
        /\ events[k].kind = "check"
        /\ ~permission_check(perms[1], events[k].what, events[k].args[1])

\* the process came as far as calling the lifecycle method
MethodCalled ==
    /\ invocation # NoInvocation
    /\ \E k \in 1..Len(events) : events[k] = LogEvent("Starting")

\* C11: a PermissionDeniedError raised by a gate check inside an SDK helper is
\* not caught by the helper: it reaches main, and the process ends with exit
\* status 2.  Every other failure (bad arguments, load failure, missing
\* registration, missing method, another exception, healthcheck returning
\* False) ends with status 1 and only a clean run with 0, so a denied check is
\* never reported as success and status 2 is given for nothing else.
Thm_C11_ViolationExitsWith2 ==
    invocation # NoInvocation =>
        /\ exit_status \in {<<0>>, <<1>>, <<2>>}
        /\ GateDenied => raised = "PermissionDeniedError" /\ exit_status = <<2>>
        /\ exit_status = <<2>> => GateDenied
        /\ exit_status = <<0>> <=>
              /\ MethodCalled
              /\ raised = "none"
              /\ ~(invocation.action = "healthcheck" /\ invocation.body.returns = "False")
        /\ exit_status = <<0>> => invocation.body.raises = "none"

\* run_installer_script is denied its URL and the process ends with status 2
Wit_C11_DeniedScriptExits2 ==
    /\ invocation # NoInvocation
    /\ invocation.body.helper = "run_installer_script"
    /\ GateDenied
    /\ exit_status = <<2>>

------------------------------------------------------------------------------
(* Properties of the script analyzer *)

Parsed == analyzed # NoSource /\ analyzed.kind = "script"

\* C12 as stated: analyze never raises; an unparsable source gives a sheet whose
\* error holds a message and a line number of at least 1, every other field at
\* its zero value; a parsable source gives a sheet whose error is null.
Claim_C12_NeverRaises ==
    analyzed # NoSource =>
        /\ raised = "none"
        /\ analyzed.kind # "script" =>
              /\ sheet.error # <<>>
              /\ sheet.error[1] # ""
              /\ sheet.error[2] # <<>>
              /\ sheet.error[2][1] >= 1
              /\ [sheet EXCEPT !.error = <<>>] = empty_result
        /\ analyzed.kind = "script" => sheet.error = <<>>

\* the statement is run(name) with a plain name
IsRunOf(stmt, name) ==
    /\ stmt.node = "Expr"
    /\ stmt.value.node = "Call"
    /\ IsName(stmt.value.func, "run")
    /\ stmt.value.args # <<>>
    /\ IsName(stmt.value.args[1], name)

\* the script of the example: class X(BaseApp) with install calling
\* self.apt_install("nginx"), then run(X)
ExampleScript == Script(ScriptWith(AptInstallStmt(3)))

\* C13 as stated: has_run_call is true exactly when a statement of the module
\* itself is run(<name>) with the name of the discovered app class, defined
\* above it; the example script gives class_name X, has_install_method,
\* has_run_call and the one method call apt_install("nginx").
Claim_C13_RunCallAtModuleLevel ==
    Parsed =>
        /\ sheet.has_run_call <=>
              \E k \in 1..Len(analyzed.tree.body) :
                 /\ IsRunOf(analyzed.tree.body[k], sheet.class_name)
                 /\ \E j \in 1..(k - 1) :
                       /\ analyzed.tree.body[j].node = "ClassDef"
                       /\ analyzed.tree.body[j].name = sheet.class_name
        /\ analyzed = ExampleScript =>
              /\ sheet.class_name = "X"
              /\ sheet.has_install_method
              /\ sheet.has_run_call
              /\ Len(sheet.method_calls) = 1
              /\ sheet.method_calls[1].method = "apt_install"
              /\ sheet.method_calls[1].args = <<StrValue("nginx")>>

\* the statement defines a class with a base known as BaseApp
IsAppClass(stmt) ==
    /\ stmt.node = "ClassDef"
    /\ \E k \in 1..Len(stmt.bases) : base_name(stmt.bases[k]) = "BaseApp"

\* the positions of the module's statements that define an app class
AppClasses == {k \in 1..Len(analyzed.tree.body) : IsAppClass(analyzed.tree.body[k])}

FirstAppClass == analyzed.tree.body[CHOOSE k \in AppClasses : \A j \in AppClasses : k <= j]

\* C14 as stated: with several classes deriving from BaseApp, class_name,
\* has_install_method and defined_methods describe the first of them only.
Claim_C14_FirstAppClassOnly ==
    Parsed /\ AppClasses # {} =>
        LET defs == function_defs(FirstAppClass.body)
        IN /\ sheet.class_name = FirstAppClass.name
           /\ sheet.has_install_method <=> \E k \in 1..Len(defs) : defs[k].name = "install"
           /\ sheet.defined_methods = [k \in 1..Len(defs) |-> defs[k].name]

RECURSIVE preorder(_)
RECURSIVE preorder_each(_)
\* the nodes of a tree in source order
preorder(node) == <<node>> \o preorder_each(iter_child_nodes(node))
preorder_each(nodes) ==
    IF nodes = <<>> THEN <<>> ELSE preorder(Head(nodes)) \o preorder_each(Tail(nodes))

RECURSIVE calls_of(_, _)
\* the calls among nodes whose shape is one of shapes, in source order
calls_of(nodes, shapes) ==
    IF nodes = <<>> THEN <<>>
    ELSE LET n == Head(nodes)
             shape == IF n.node # "Call" \/ n.func.node # "Attribute" THEN "other"
                      ELSE IF IsName(n.func.value, "self") THEN "self.method"
                      ELSE IF n.func.value.node = "Attribute" /\ IsName(n.func.value.value, "self")
                           THEN IF n.func.value.attr = "inputs" THEN "self.inputs.kind"
                                ELSE "self.attribute.method"
                      ELSE "other"
         IN (IF shape \in shapes THEN <<n>> ELSE <<>>) \o calls_of(Tail(nodes), shapes)

ScriptCalls(shapes) == calls_of(preorder(analyzed.tree), shapes)

IsStrLiteral(node) == node.node = "Constant" /\ node.value.type = "str"

\* C15 as stated: of the calls self.inputs.<kind>(k, ...), exactly those whose
\* first positional argument is a string literal, whatever its content, are
\* recorded in input_keys, each as {key, line, type: <kind>}.
Claim_C15_LiteralKeysRecorded ==
    Parsed =>
        LET calls == ScriptCalls({"self.inputs.kind"})
        IN /\ \A k \in 1..Len(calls) :
                 (calls[k].args # <<>> /\ IsStrLiteral(calls[k].args[1])) =>
                    \E j \in 1..Len(sheet.input_keys) :
                        sheet.input_keys[j] = [key |-> calls[k].args[1].value.s,
                                               line |-> calls[k].lineno,
                                               type |-> calls[k].func.attr]
           /\ (\A k \in 1..Len(calls) :
                  calls[k].args = <<>> \/ ~IsStrLiteral(calls[k].args[1]))
                  => sheet.input_keys = <<>>

\* the arguments whose record the claim fixes: a constant and a negated number
\* are their value, a name, a call, a negated name and a starred argument are
\* the marker
IsPlain(arg) ==
    \/ arg.node \in {"Constant", "Name", "Call", "Starred"}
    \/ arg.node = "UnaryOp" /\ arg.operand.node \in {"Constant", "Name"}

Represented(arg) ==
    IF arg.node = "Constant" THEN arg.value
    ELSE IF arg.node = "UnaryOp" /\ arg.op = "USub" /\ arg.operand.node = "Constant"
            /\ arg.operand.value.type = "int"
         THEN IntValue(0 - arg.operand.value.n)
    ELSE Dynamic

\* C16 as stated: a recorded self call has one entry for each of its arguments,
\* positional, starred, keyword and ** spread alike; constants and negated
\* numbers appear as their value and names, calls and starred arguments as the
\* dynamic marker.
Claim_C16_NoArgumentDropped ==
    Parsed =>
        LET calls == ScriptCalls({"self.method"})
        IN /\ Len(sheet.method_calls) = Len(calls)
           /\ \A k \in 1..Len(calls) :
                 /\ Len(sheet.method_calls[k].args) = Len(calls[k].args)
                 /\ Len(sheet.method_calls[k].kwargs) = Len(calls[k].keywords)
                 /\ \A a \in 1..Len(calls[k].args) :
                       IsPlain(calls[k].args[a]) =>
                          sheet.method_calls[k].args[a] = Represented(calls[k].args[a])

KeywordNames(call_) == {call_.keywords[k].arg : k \in 1..Len(call_.keywords)} \ {<<>>}

------------------------------------------------------------------------------
(* Properties of the registry client *)

RECURSIVE requests(_, _)
\* what the pull asked the registry for, in order: the references of its
\* requests of one kind (token, manifest or blob)
requests(evs, what) ==
    IF evs = <<>> THEN <<>>
    ELSE (IF Head(evs).kind = "request" /\ Head(evs).what = what THEN <<Head(evs).args[1]>>
          ELSE <<>>) \o requests(Tail(evs), what)

Pulling == pull # NoPull
NetworkRequests == {k \in 1..Len(events) : events[k].kind = "request"}
FileWrites == {k \in 1..Len(events) : events[k].kind = "file"}
SupportedMachines == {"x86_64", "AMD64", "aarch64", "arm64"}

\* C18: pull_binary on a host whose CPU architecture is not one of the two
\* supported ones (x86_64/AMD64 -> amd64, aarch64/arm64 -> arm64) fails with the
\* unsupported-architecture error before any network request (token, manifest or
\* blob) is made, and writes nothing to the destination.
Thm_C18_UnsupportedArchFailsFirst ==
    [][(~Pulling /\ Pulling' /\ machine \notin SupportedMachines) =>
          /\ raised' = "RuntimeError: Unsupported architecture"
          /\ {k \in 1..Len(events') : events'[k].kind \in {"request", "file"}} = {}
          /\ files' = files]_vars

\* a pull on a mips host, from a registry whose manifest list has entries for
\* amd64 and arm64, has failed without a request and without a file
Wit_C18_MipsFailsBeforeToken ==
    /\ Pulling
    /\ machine = "mips"
    /\ registry.index = ManifestList(<<Entry("linux", "amd64"), Entry("linux", "arm64")>>)
    /\ raised = "RuntimeError: Unsupported architecture"
    /\ NetworkRequests = {}
    /\ FileWrites = {}
    /\ files[pull.dest] = <<>>

\* C19: when the registry's response to the tag manifest request is already a
\* single-platform image manifest (it has layers and no manifests list),
\* pull_binary skips platform selection and proceeds to scan that manifest's
\* layers; it does not fail with a manifest-not-found error.
Claim_C19_SingleManifestScanned ==
    (/\ Pulling
     /\ machine \in SupportedMachines
     /\ "manifests" \notin DOMAIN registry.index
     /\ "layers" \in DOMAIN registry.index
     /\ registry.index.layers # <<>>) =>
        /\ raised # "RuntimeError: No linux manifest found"
        /\ requests(events, "blob") # <<>>
        /\ requests(events, "blob")[1] = registry.index.layers[1].digest

\* the names the pull in flight looks for
CandidateNames ==
    IF pull.binary_names # <<>> THEN Range(pull.binary_names)
    ELSE {Gluetun, Gluetun \o Entrypoint}
\* the regular files of a layer that carry one of the names, by position
Targets(layer) ==
    IF layer.digest \notin DOMAIN registry.blobs THEN {}
    ELSE LET blob == registry.blobs[layer.digest]
         IN IF blob.kind # "tar" THEN {}
            ELSE {k \in 1..Len(blob.members) :
                    /\ blob.members[k].type = "file"
                    /\ \/ blob.members[k].name \in CandidateNames
                       \/ \E n \in CandidateNames : blob.members[k].name = <<".", "/">> \o n}
\* the layers of the image whose manifest the pull in flight fetched
ScannedLayers ==
    LET asked == requests(events, "manifest")
    IN IF Len(asked) = 2 /\ asked[2] \in DOMAIN registry.images
       THEN get_layers(registry.images[asked[2]]) ELSE <<>>
Downloadable(layers, n) == \A j \in 1..n : layers[j].digest \in DOMAIN registry.blobs
\* the first n layers are served and none of them stops its decompressor
Inflatable(layers, n) ==
    \A j \in 1..n : /\ layers[j].digest \in DOMAIN registry.blobs
                     /\ registry.blobs[layers[j].digest].kind # "damaged"

InvalidLayers(layers) ==
    {j \in 1..Len(layers) : /\ layers[j].digest \in DOMAIN registry.blobs
                            /\ registry.blobs[layers[j].digest].kind # "tar"}

\* C21: a layer whose blob is not a valid archive is skipped and scanning
\* continues with the next layer; invalid layers alone never make the pull fail:
\* the pull fails with the binary-not-found error only after every layer has
\* been scanned without a match, and succeeds if any valid layer after an
\* invalid one contains the binary.
Claim_C21_InvalidLayersSkipped ==
    (/\ Pulling
     /\ InvalidLayers(ScannedLayers) # {}
     /\ Downloadable(ScannedLayers, Len(ScannedLayers))
     /\ pull.disk = "ok") =>
        IF \A j \in 1..Len(ScannedLayers) : Targets(ScannedLayers[j]) = {}
        THEN /\ raised = "RuntimeError: Binary not found in any layer"
             /\ requests(events, "blob")
                  = [j \in 1..Len(ScannedLayers) |-> ScannedLayers[j].digest]
        ELSE raised = "none"

\* the type of the exception a pull ended with
ErrorType(exc) ==
    IF exc \in {"RuntimeError: Unsupported architecture",
                "RuntimeError: No linux manifest found",
                "RuntimeError: Binary not found in any layer"}
    THEN "RuntimeError"
    ELSE exc

\* the step at which a failed pull stopped, as far as C22 names it
FailedStep(evs, exc) ==
    IF exc = "none" THEN "none"
    ELSE IF requests(evs, "token") = <<>> THEN "architecture"
    ELSE IF requests(evs, "manifest") = <<>> THEN "token"
    ELSE IF exc = "RuntimeError: No linux manifest found" THEN "platform entry"
    ELSE IF exc = "RuntimeError: Binary not found in any layer" THEN "no match"
    ELSE "other"

\* one pull for each of the four failures: of a host of an unknown architecture,
\* of a registry that denies the token, of a manifest list without the platform
\* and of an image without the binary
FailedPulls ==
    LET image == Registry(Index("manifest list", <<Layer(Sha("other"))>>),
                          <<Layer(Sha("other"))>>)
    IN {pull_binary("mips", "ok", image, "qmcgaw/gluetun", UsrBinGluetun, "latest", <<>>),
        pull_binary("x86_64", "ok", Unauthorized(image), "qmcgaw/gluetun", UsrBinGluetun,
                    "latest", <<>>),
        pull_binary("x86_64", "ok", Registry(ManifestList(<<>>), <<>>), "qmcgaw/gluetun",
                    UsrBinGluetun, "latest", <<>>),
        pull_binary("x86_64", "ok", image, "qmcgaw/gluetun", UsrBinGluetun, "latest", <<>>)}

\* C22: each failing step of a pull ends with an error of its own kind (token
\* endpoint, unrecognized architecture, no matching platform entry, no matching
\* file in any layer), so a caller can tell the four failures apart by the type
\* of the error without inspecting the message text: a failed pull and any of
\* the four failures that stopped at another step differ in the error's type.
Claim_C22_ErrorKindsDistinct ==
    (Pulling /\ FailedStep(events, raised) \in {"architecture", "token", "platform entry",
                                                "no match"}) =>
        \A other \in FailedPulls :
            FailedStep(other.events, other.raised) # FailedStep(events, raised)
                => ErrorType(other.raised) # ErrorType(raised)

\* C23: whenever pull_binary ends in failure, at whatever step (authentication,
\* manifest fetch, layer download, no match, or an error while writing the
\* matched file), no new or partially written file exists at the destination
\* path, and a file that was there before the pull is unchanged.
Claim_C23_NoPartialFileOnFailure ==
    (Pulling /\ raised # "none") => files[pull.dest] = pull.before

\* C24: a layer entry matches if and only if it is a regular file and its name,
\* with a leading './' removed and nothing else altered, is one of the candidate
\* binary names; directories, links and entries whose name differs from every
\* candidate after that removal ('.gluetun', '../gluetun') never match: the
\* pull installs the first such entry of the layer, and fails with the
\* binary-not-found error, leaving dest alone, when the layer has none.
Claim_C24_MatchIsExactName ==
    (Pulling /\ Len(ScannedLayers) = 1 /\ Downloadable(ScannedLayers, 1)) =>
        LET members == registry.blobs[ScannedLayers[1].digest].members
            matching == Targets(ScannedLayers[1])
        IN IF matching = {}
           THEN /\ raised = "RuntimeError: Binary not found in any layer"
                /\ files[pull.dest] = pull.before
           ELSE /\ raised = "none"
                /\ \E k \in matching :
                       /\ \A j \in matching : k <= j
                       /\ files[pull.dest] = <<[data |-> members[k].data, mode |-> "0o755"]>>

------------------------------------------------------------------------------
(* Properties of the helpers of the network and the filesystem *)

\* the events of a call that reach outside the process: requests, file
\* operations and subprocesses
Effects(evs) == {k \in 1..Len(evs) : evs[k].kind \in {"request", "file", "run"}}
Checks(evs) == {k \in 1..Len(evs) : evs[k].kind = "check"}

\* C25: pull_oci_binary runs its gate checks (the two registry URL checks and
\* check_path on the destination) before the registry client is invoked: if any
\* of them is denied, PermissionDeniedError is raised and OCIClient.pull_binary
\* is never called, so no network request is made and nothing is written; when
\* all are allowed the three checks are the first three events of the call.
Thm_C25_GateBeforeRegistryClient ==
    [][(call = NoCall /\ call'.helper = "pull_oci_binary") =>
          LET p == perms[call'.script]
              dest == call'.packages[1]
              allowed == /\ check_url(p, DockerAuthUrl)
                         /\ check_url(p, DockerRegistryUrl)
                         /\ check_path(p, implicit_paths, dest)
          IN IF allowed
             THEN /\ raised' # "PermissionDeniedError"
                  /\ Checks(events') = 1..3
                  /\ events'[3] = CheckEvent("check_path", dest)
                  /\ machine \in SupportedMachines => Effects(events') # {}
             ELSE /\ raised' = "PermissionDeniedError"
                  /\ Effects(events') = {}
                  /\ \A k \in 1..Len(events') : events'[k].kind = "check"
                  /\ files' = files]_vars

\* both registry URLs are allowed and the destination is not: the call has
\* raised after its third check, although the registry serves the binary
Wit_C25_DeniedDestination ==
    /\ call.helper = "pull_oci_binary"
    /\ check_url(perms[call.script], DockerAuthUrl)
    /\ check_url(perms[call.script], DockerRegistryUrl)
    /\ ~check_path(perms[call.script], implicit_paths, call.packages[1])
    /\ registry = Registry(Index("manifest list", <<Layer(Sha("plain"))>>),
                           <<Layer(Sha("plain"))>>)
    /\ raised = "PermissionDeniedError"
    /\ Len(events) = 3
    /\ Effects(events) = {}
    /\ files[call.packages[1]] = <<>>

Polls == {k \in 1..Len(events) : events[k].kind = "request" /\ events[k].what = "urlopen"}
Sleeps == {k \in 1..Len(events) : events[k].kind = "sleep"}

\* C26: wait_for_http(url, timeout, interval) with interval >= 1 always
\* terminates: it makes at most max(1, timeout // interval) requests, returns
\* True at the first request answered with status 200 without sleeping after it,
\* sleeps only between attempts (never after the last), and returns False once
\* all attempts have failed; a denied URL raises before the first request.
Thm_C26_WaitForHttpBounded ==
    (call.helper = "wait_for_http" /\ call.packages[3] >= 1) =>
        LET url == call.packages[1]
            attempts == IF call.packages[2] \div call.packages[3] > 1
                        THEN call.packages[2] \div call.packages[3] ELSE 1
            ok == {k \in Polls : events[k].args[2] = "200"}
        IN IF ~check_url(perms[call.script], url)
           THEN raised = "PermissionDeniedError" /\ Polls = {} /\ Sleeps = {}
           ELSE /\ raised = "none"
                /\ Cardinality(Polls) \in 1..attempts
                /\ events[Len(events)] \in {ReturnEvent("True"), ReturnEvent("False")}
                /\ \A k \in Sleeps : /\ k - 1 \in Polls /\ k + 1 \in Polls
                                      /\ events[k] = SleepEvent(call.packages[3])
                /\ Cardinality(Sleeps) = Cardinality(Polls) - 1
                /\ IF ok # {}
                   THEN /\ events[Len(events)] = ReturnEvent("True")
                        /\ Cardinality(ok) = 1
                        /\ \A k \in Polls \cup Sleeps : \A j \in ok : k <= j
                   ELSE /\ events[Len(events)] = ReturnEvent("False")
                        /\ Cardinality(Polls) = attempts

\* timeout 6 and interval 2 give three attempts; the endpoint answered 200 at
\* the third, after two failures and two sleeps, and the helper returned True
Wit_C26_UpAtLastAttempt ==
    /\ call.helper = "wait_for_http"
    /\ call.packages = <<HttpsA, 6, 2>>
    /\ raised = "none"
    /\ Cardinality(Polls) = 3
    /\ Cardinality(Sleeps) = 2
    /\ events[Len(events)] = ReturnEvent("True")

\* the filesystem writes and the subprocesses of the call in flight
WritesAndProcesses == {k \in 1..Len(events) : events[k].kind \in {"file", "run"}}

\* C27: for every BaseApp helper call that ends by raising
\* PermissionDeniedError, the call has performed no filesystem write and started
\* no subprocess before the raise: all gate checks of a helper, those of the
\* platform functions and nested helpers it calls included, precede its first
\* effect on the system.
Claim_C27_ChecksBeforeEffects ==
    (call # NoCall /\ raised = "PermissionDeniedError") => WritesAndProcesses = {}

\* the locations the call in flight creates or writes at, by event: the path of
\* a file operation and the directory of a virtual environment
WrittenLocations ==
    {k \in 1..Len(events) :
        \/ events[k].kind = "file"
        \/ events[k].kind = "run" /\ events[k].what = "python3 -m venv"}

\* C28: every BaseApp helper that creates or writes at a caller-supplied
\* filesystem location (pip_install with its venv argument among them) passes
\* that location through check_path before the write, so that no helper creates
\* files outside the allowed prefixes and scratch directories.
Claim_C28_WritesPassCheckPath ==
    call # NoCall =>
        \A k \in WrittenLocations :
            /\ check_path(perms[call.script], implicit_paths, events[k].args[1])
            /\ \/ events[k].args[1] = _default_venv
               \/ \E j \in 1..(k - 1) :
                      events[j] = CheckEvent("check_path", events[k].args[1])

\* the events of the call in flight that are the event e
EventsOf(e) == {k \in 1..Len(events) : events[k] = e}
\* its subprocesses of the command cmd
RunsOf(cmd) == {k \in 1..Len(events) : events[k].kind = "run" /\ events[k].what = cmd}

\* C29: in run_installer_script, once the gate has approved the URL, the
\* temporary script file is removed on every exit path (download failure,
\* script failure, success), and the script is executed with bash only after the
\* download command succeeded; when the URL is denied, no temporary file is
\* created and no command runs.
Thm_C29_InstallerScriptCleansUp ==
    call.helper = "run_installer_script" =>
        LET url == call.packages[1]
            curl_rc == call.packages[2]
            bash_rc == call.packages[3]
            created == EventsOf(FileEvent("NamedTemporaryFile", TmpScript))
            removed == EventsOf(FileEvent("unlink", TmpScript))
        IN IF ~check_installer_script(perms[call.script], url)
           THEN /\ raised = "PermissionDeniedError"
                /\ WritesAndProcesses = {}
           ELSE /\ Cardinality(created) = 1
                /\ removed = {Len(events)}
                /\ \A k \in WritesAndProcesses : \A j \in created : j <= k
                /\ Cardinality(RunsOf("curl -fsSL -o")) = 1
                /\ RunsOf("bash") # {} <=> curl_rc = 0
                /\ \A k \in RunsOf("bash") : \A j \in RunsOf("curl -fsSL -o") : j < k
                /\ raised = IF curl_rc = 0 /\ bash_rc = 0 THEN "none" ELSE "RuntimeError"

\* the download of an approved script failed: bash did not run, the temporary
\* file was created and then removed, and the call raised
Wit_C29_DownloadFailed ==
    /\ call.helper = "run_installer_script"
    /\ call.packages = <<HttpsA, 1, 0>>
    /\ raised = "RuntimeError"
    /\ RunsOf("curl -fsSL -o") # {}
    /\ RunsOf("bash") = {}
    /\ EventsOf(FileEvent("NamedTemporaryFile", TmpScript)) # {}
    /\ events[Len(events)] = FileEvent("unlink", TmpScript)

------------------------------------------------------------------------------
(* Properties of the runner's order *)

\* the steps of the process in flight that ran code outside main
Loads == EventsOf(CallEvent("from_file"))
ModuleRuns == EventsOf(CallEvent("exec_module"))
Instances == EventsOf(CallEvent("app_class"))
MethodCalls == {k \in 1..Len(events) : events[k].kind = "call" /\ events[k].what \in valid_actions}

====
